---- MODULE Spec2Model ----
(***************************************************************************)
(* CoDude: the recipes file (parse / edit / delete), the recently-used and *)
(* favorites lists, the dispatch of LLM requests and the request thread.   *)
(*                                                                         *)
(* Text is modelled as a sequence of one-character strings, so that the    *)
(* code's strip / split / startswith / slicing are computed, not assumed.  *)
(* The character "S" stands for the star glyph of the favorite prefix.     *)
(***************************************************************************)
EXTENDS Integers, Sequences, FiniteSets, TLC

(***************************************************************************)
(* Python string primitives                                                *)
(***************************************************************************)

\* str.strip() / str.split() whitespace (the part of it the model's alphabet has)
WS == {" ", "\t", "\n"}

MinOf(S) == CHOOSE x \in S : \A y \in S : x <= y
MaxOf(S) == CHOOSE x \in S : \A y \in S : x >= y

\* s.lstrip(chars)
LStripSet(s, cs) ==
  LET keep == {i \in 1..Len(s) : s[i] \notin cs}
  IN  IF keep = {} THEN <<>> ELSE SubSeq(s, MinOf(keep), Len(s))

\* s.rstrip(chars)
RStripSet(s, cs) ==
  LET keep == {i \in 1..Len(s) : s[i] \notin cs}
  IN  IF keep = {} THEN <<>> ELSE SubSeq(s, 1, MaxOf(keep))

\* s.strip(chars)
StripSet(s, cs) == RStripSet(LStripSet(s, cs), cs)

\* s.strip()
Strip(s) == StripSet(s, WS)

\* s.startswith(p)
StartsWith(s, p) == Len(s) >= Len(p) /\ SubSeq(s, 1, Len(p)) = p

\* c in s
Contains(s, c) == \E i \in 1..Len(s) : s[i] = c

\* s.rsplit(c, 1): the cut at the last c
SplitLast(s, c) ==
  LET i == MaxOf({j \in 1..Len(s) : s[j] = c})
  IN  <<SubSeq(s, 1, i - 1), SubSeq(s, i + 1, Len(s))>>

\* s.split(c, 1) for a string that contains c: <<before, after>>
SplitFirst(s, c) ==
  LET i == MinOf({j \in 1..Len(s) : s[j] = c})
  IN  <<SubSeq(s, 1, i - 1), SubSeq(s, i + 1, Len(s))>>

\* s[:n]
Prefix(s, n) == SubSeq(s, 1, IF Len(s) < n THEN Len(s) ELSE n)

\* s[n:]
Suffix(s, n) == SubSeq(s, n + 1, Len(s))

\* ' '.join(s.split()): every whitespace run becomes one space, the ends are trimmed
RECURSIVE Collapse(_, _)
Collapse(s, prevWS) ==
  IF s = <<>> THEN <<>>
  ELSE IF Head(s) \in WS
       THEN (IF prevWS THEN <<>> ELSE <<" ">>) \o Collapse(Tail(s), TRUE)
       ELSE <<Head(s)>> \o Collapse(Tail(s), FALSE)

\* a comparison key that is only trimmed
NormalizeStripOnly(s) == Strip(s)

normalize_whitespace_for_comparison(s) == Strip(Collapse(Strip(s), FALSE))

\* s.replace(old, "")
RECURSIVE RemoveAll(_, _)
RemoveAll(s, old) ==
  IF s = <<>> THEN <<>>
  ELSE IF StartsWith(s, old) THEN RemoveAll(Suffix(s, Len(old)), old)
       ELSE <<Head(s)>> \o RemoveAll(Tail(s), old)

\* f.readlines(): the content cut after every "\n"
RECURSIVE ReadLines(_)
ReadLines(content) ==
  IF content = <<>> THEN <<>>
  ELSE LET nl == {i \in 1..Len(content) : content[i] = "\n"}
       IN  IF nl = {} THEN <<content>>
           ELSE <<SubSeq(content, 1, MinOf(nl))>> \o ReadLines(Suffix(content, MinOf(nl)))

\* f.writelines(lines): the concatenation of the lines
RECURSIVE WriteLines(_)
WriteLines(lines) ==
  IF lines = <<>> THEN <<>> ELSE Head(lines) \o WriteLines(Tail(lines))

(***************************************************************************)
(* The recipes file                                                        *)
(***************************************************************************)

\* the test both the parser and the two rewrites apply to a stripped line
LooksLikeRecipe(stripped) == StartsWith(stripped, <<"*", "*">>) /\ Contains(stripped, ":")

\* name_part.strip().strip('**').strip() and prompt_part.strip() of a recipe-like line
LineName(stripped) == Strip(StripSet(Strip(SplitFirst(stripped, ":")[1]), {"*"}))
LinePrompt(stripped) == Strip(SplitFirst(stripped, ":")[2])

\* _parse_recipes_file_to_structure: the loop over the lines
RECURSIVE ParseLines(_, _, _, _)
ParseLines(lines, k, hasGroup, group) ==
  IF k > Len(lines) THEN <<>>
  ELSE LET line == Strip(lines[k])
       IN  IF line = <<>> THEN ParseLines(lines, k + 1, hasGroup, group)
           ELSE IF StartsWith(line, <<"#">>)
           THEN LET title == Strip(LStripSet(line, {"#"}))
                IN  <<[type |-> "group", name |-> title, prompt |-> <<>>, hasGroup |-> TRUE,
                       group |-> title, line_num |-> k - 1]>>
                    \o ParseLines(lines, k + 1, TRUE, title)
           ELSE IF LooksLikeRecipe(line) /\ LineName(line) # <<>> /\ LinePrompt(line) # <<>>
           THEN <<[type |-> "recipe", name |-> LineName(line), prompt |-> LinePrompt(line),
                   hasGroup |-> hasGroup, group |-> group, line_num |-> k - 1]>>
                \o ParseLines(lines, k + 1, hasGroup, group)
           ELSE ParseLines(lines, k + 1, hasGroup, group)

_parse_recipes_file_to_structure(content) == ParseLines(ReadLines(content), 1, FALSE, <<>>)

\* the 'id' of a recipe node
NodeId(n) == <<n.name, n.prompt>>

\* the recipe nodes of a parse, in order
RecipesOf(nodes) == SelectSeq(nodes, LAMBDA n : n.type = "recipe")

\* the match both rewrites use: a recipe-like line whose normalized name and prompt
\* equal the normalized search keys
LineMatches(line_content, name, prompt) ==
  LET stripped == Strip(line_content)
  IN  /\ LooksLikeRecipe(stripped)
      /\ normalize_whitespace_for_comparison(LineName(stripped))
           = normalize_whitespace_for_comparison(name)
      /\ normalize_whitespace_for_comparison(LinePrompt(stripped))
           = normalize_whitespace_for_comparison(prompt)

\* the line written in place of a matching one
ReplacementLine(line_content, new_name, new_prompt) ==
  LET newline_char == Suffix(line_content, Len(Strip(line_content)))
  IN  <<"*", "*">> \o new_name \o <<"*", "*", ":", " ">> \o new_prompt \o newline_char

\* _update_recipe_in_file: updated_lines
UpdatedLines(lines, old_name, old_prompt, new_name, new_prompt) ==
  [k \in 1..Len(lines) |->
     IF LineMatches(lines[k], old_name, old_prompt)
     THEN ReplacementLine(lines[k], new_name, new_prompt)
     ELSE lines[k]]

\* _remove_recipe_from_file: updated_lines
RemainingLines(lines, name, prompt) ==
  SelectSeq(lines, LAMBDA l : ~LineMatches(l, name, prompt))

\* a search that always succeeds
AlwaysFound(lines, name, prompt) == TRUE

\* found_and_updated / found_and_removed
FoundInFile(lines, name, prompt) ==
  \E k \in 1..Len(lines) : LineMatches(lines[k], name, prompt)

(***************************************************************************)
(* JSON values, as response.json() returns them.  Every value has the same *)
(* record shape; a dict is the ordered sequence of its "pair" items.       *)
(***************************************************************************)

JNone == [t |-> "null", s |-> <<>>, n |-> 0, items |-> <<>>]
JStr(s) == [t |-> "str", s |-> s, n |-> 0, items |-> <<>>]
JNum(n) == [t |-> "num", s |-> <<>>, n |-> n, items |-> <<>>]
JList(items) == [t |-> "list", s |-> <<>>, n |-> 0, items |-> items]
JPair(k, v) == [t |-> "pair", s |-> <<k>>, n |-> 0, items |-> <<v>>]
JDict(pairs) == [t |-> "dict", s |-> <<>>, n |-> 0, items |-> pairs]

\* isinstance(v, dict / list / str)
IsDict(v) == v.t = "dict"
IsList(v) == v.t = "list"
IsStr(v) == v.t = "str"

\* k in d, for a dict d
HasKey(d, k) == \E i \in 1..Len(d.items) : d.items[i].s = <<k>>

\* d.get(k): None when the key is absent
Get(d, k) ==
  IF HasKey(d, k)
  THEN d.items[MaxOf({i \in 1..Len(d.items) : d.items[i].s = <<k>>})].items[1]
  ELSE JNone

\* bool(v)
Truthy(v) ==
  CASE v.t = "null" -> FALSE
    [] v.t = "str" -> v.s # <<>>
    [] v.t = "num" -> v.n # 0
    [] OTHER -> v.items # <<>>

\* a or b
PyOr(a, b) == IF Truthy(a) THEN a ELSE b

\* f"{v}": the text of a string, an opaque rendering of anything else
Format(v) == IF IsStr(v) THEN v.s ELSE <<"<repr of ", v.t, ">">>

\* the text of a JSON body (response.text of a server that sent this value)
RECURSIVE Dump(_)
RECURSIVE DumpItems(_)
DumpItems(items) ==
  IF items = <<>> THEN <<>>
  ELSE Dump(Head(items)) \o (IF Len(items) > 1 THEN <<",">> ELSE <<>>) \o DumpItems(Tail(items))
Dump(v) ==
  CASE v.t = "null" -> <<"null">>
    [] v.t = "str" -> <<"\"">> \o v.s \o <<"\"">>
    [] v.t = "num" -> <<ToString(v.n)>>
    [] v.t = "list" -> <<"[">> \o DumpItems(v.items) \o <<"]">>
    [] v.t = "pair" -> <<"\"">> \o v.s \o <<"\"", ":">> \o Dump(v.items[1])
    [] OTHER -> <<"{">> \o DumpItems(v.items) \o <<"}">>

(***************************************************************************)
(* LLMRequestThread.run.  A run's outcome is the sequence of signals it    *)
(* emitted and the exception (if any) that left run().                     *)
(***************************************************************************)

\* the two signals
\* a reply of the server: its status, whether its body is JSON, the value, the text
Response(status_code, is_json, json, text) ==
  [status_code |-> status_code, is_json |-> is_json, json |-> json, text |-> text]

\* what the network does to a request
NetFailed(kind) ==
  [kind |-> kind, lib_new |-> FALSE, response |-> Response(0, FALSE, JNone, <<>>)]
NetJson(status_code, json) ==
  [kind |-> "response", lib_new |-> FALSE,
   response |-> Response(status_code, TRUE, json, Dump(json))]
NetText(status_code, text, lib_new) ==
  [kind |-> "response", lib_new |-> lib_new,
   response |-> Response(status_code, FALSE, JNone, text)]

\* the thread has not posted
NoReply == [kind |-> "none", lib_new |-> FALSE, response |-> Response(0, FALSE, JNone, <<>>)]

\* the signals
Emit(sig, msg) == [sig |-> sig, msg |-> msg]
ErrorSig(msg) == Emit("error_occurred", msg)
ResponseSig(content) == Emit("response_received", content)

\* what the body of the try block did: it emitted, and/or it raised
Returned(emitted) == [emitted |-> emitted, raised |-> "none", exc |-> <<>>]
Raised(kind, exc) == [emitted |-> <<>>, raised |-> kind, exc |-> exc]

\* raw_response[:200], the excerpt length of the error messages
RawExcerptLen == 200

\* a message that names the status only
StatusErrorMessageBare(response) ==
  <<"LLM request failed (Status: ", ToString(response.status_code), ").">>

\* the message built for a response whose status is not 200
StatusErrorMessage(response) ==
  LET head == <<"LLM request failed (Status: ", ToString(response.status_code), ").">>
      error_data == response.json
      err == Get(error_data, "error")
  IN  IF ~response.is_json
      THEN head \o <<" Raw Response: ">> \o Prefix(response.text, RawExcerptLen)
      ELSE IF IsDict(error_data) /\ HasKey(error_data, "error")
      THEN IF IsDict(err) /\ HasKey(err, "message")
           THEN head \o <<" Message: ">> \o Format(Get(err, "message"))
           ELSE IF IsStr(err) THEN head \o <<" Message: ">> \o err.s
           ELSE head
      ELSE head

\* the status branch of run(): emit the error and return
NonOkBranch(response) == Returned(<<ErrorSig(StatusErrorMessage(response))>>)

\* response.json() of a 200 response: the value, or the decode error, which is a
\* RequestException or a plain json.JSONDecodeError depending on the requests version
DecodeRaises(response, lib_new) ==
  Raised(IF lib_new THEN "RequestException" ELSE "JSONDecodeError", <<"<decode error>">>)

\* choices[0].message.content, None when the structure is not there
OpenAIContent(result) ==
  LET choices == Get(result, "choices")
      first_choice == choices.items[1]
      message == Get(first_choice, "message")
  IN  IF IsList(choices) /\ Truthy(choices) /\ IsDict(first_choice) /\ IsDict(message)
      THEN Get(message, "content")
      ELSE JNone

\* the fallback of the OpenAI-compatible branch: 'text', then 'response', strings only
TextOrResponse(result) ==
  IF HasKey(result, "text") /\ IsStr(Get(result, "text")) THEN Get(result, "text")
  ELSE IF HasKey(result, "response") /\ IsStr(Get(result, "response"))
       THEN Get(result, "response")
       ELSE JNone

\* the scan of output[] from the end, then the first entry's content
OutputContent(result) ==
  LET output == Get(result, "output")
      hits == {i \in 1..Len(output.items) :
                 /\ IsDict(output.items[i])
                 /\ Get(output.items[i], "type") = JStr(<<"message">>)
                 /\ Truthy(Get(output.items[i], "content"))}
  IN  IF IsList(output) /\ Truthy(output)
      THEN IF hits # {} THEN Get(output.items[MaxOf(hits)], "content")
           ELSE IF IsDict(output.items[1]) THEN Get(output.items[1], "content")
           ELSE JNone
      ELSE JNone

\* result.get('content') or result.get('text') or result.get('response')
TopLevelContent(result) ==
  PyOr(PyOr(Get(result, "content"), Get(result, "text")), Get(result, "response"))

\* one order for every provider: choices, then output[], then the top-level fields
ExtractFixed(provider, result) ==
  IF OpenAIContent(result) # JNone THEN OpenAIContent(result)
  ELSE IF OutputContent(result) # JNone THEN OutputContent(result)
  ELSE TopLevelContent(result)

\* llm_client.py: content, by provider
ExtractClient(provider, result) ==
  IF provider = "LM Studio Native API"
  THEN IF OutputContent(result) # JNone THEN OutputContent(result)
       ELSE TopLevelContent(result)
  ELSE IF OpenAIContent(result) # JNone THEN OpenAIContent(result)
       ELSE TextOrResponse(result)

\* codude.py: content (one branch for every provider)
ExtractCodude(result) ==
  IF OpenAIContent(result) # JNone THEN OpenAIContent(result) ELSE TextOrResponse(result)

\* the 200 branch of run(), given the extraction
OkBranch(response, lib_new, content, codude) ==
  IF ~response.is_json THEN DecodeRaises(response, lib_new)
  ELSE IF ~Truthy(response.json) THEN Raised("ValueError", <<"Empty success response from LLM">>)
  ELSE IF ~IsDict(response.json)
  THEN Raised("ValueError", <<"Invalid success response format. Expected dict, got ", response.json.t>>)
  ELSE IF content = JNone
  THEN Raised("ValueError",
              IF codude
              THEN <<"No valid content found in LLM success response (checked choices[0].message.content and fallbacks).">>
              ELSE <<"No valid content found in LLM success response.">>)
  ELSE IF ~IsStr(content)
  THEN Raised("ValueError", <<"Invalid content type found: ", content.t, ". Expected string.">>)
  ELSE Returned(<<ResponseSig(content.s)>>)

\* requests.post(...) and everything after it
AfterPost(net, content, codude) ==
  CASE net.kind = "timeout" -> Raised("Timeout", <<"<timeout>">>)
    [] net.kind = "request_exception" -> Raised("RequestException", <<"<connection error>">>)
    [] net.kind = "unexpected" -> Raised("Exception", <<"<unexpected>">>)
    [] OTHER -> IF net.response.status_code # 200
                THEN NonOkBranch(net.response)
                ELSE OkBranch(net.response, net.lib_new, content, codude)

\* the checks before the request, by provider: the error emitted, or none
ConfigErrorClient(cfg) ==
  CASE cfg.provider = "Local OpenAI-Compatible" ->
         IF cfg.url = <<>> THEN <<"LLM URL for Local provider not configured.">> ELSE <<>>
    [] cfg.provider = "OpenAI API" ->
         IF cfg.api_key = <<>> THEN <<"OpenAI API Key not configured.">> ELSE <<>>
    [] cfg.provider = "LM Studio Native API" ->
         IF cfg.url = <<>> THEN <<"LM Studio URL not configured.">> ELSE <<>>
    [] OTHER -> <<"Unsupported LLM provider: ", cfg.provider>>

ConfigErrorCodude(cfg) ==
  CASE cfg.provider = "Local OpenAI-Compatible" ->
         IF cfg.url = <<>> THEN <<"LLM URL for Local provider not configured.">> ELSE <<>>
    [] cfg.provider = "OpenAI API" ->
         IF cfg.api_key = <<>> THEN <<"OpenAI API Key not configured.">> ELSE <<>>
    [] OTHER -> <<"Unsupported LLM provider: ", cfg.provider>>

\* the body of the try block
TryBodyClient(cfg, net) ==
  IF net.kind = "bad_text" THEN Raised("Exception", <<"<attribute error>">>)
  ELSE IF ConfigErrorClient(cfg) # <<>> THEN Returned(<<ErrorSig(ConfigErrorClient(cfg))>>)
  ELSE AfterPost(net, IF net.kind = "response" /\ net.response.is_json /\ IsDict(net.response.json)
                      THEN ExtractClient(cfg.provider, net.response.json) ELSE JNone,
                 FALSE)

TryBodyCodude(cfg, net) ==
  IF net.kind = "bad_text" THEN Raised("Exception", <<"<attribute error>">>)
  ELSE IF ConfigErrorCodude(cfg) # <<>> THEN Returned(<<ErrorSig(ConfigErrorCodude(cfg))>>)
  ELSE AfterPost(net, IF net.kind = "response" /\ net.response.is_json /\ IsDict(net.response.json)
                      THEN ExtractCodude(net.response.json) ELSE JNone,
                 TRUE)

\* the except clauses of run(): which one catches, and what it emits
HandlerMessage(body, net, codude) ==
  LET glimpse == IF net.kind = "response" THEN Prefix(net.response.text, RawExcerptLen)
                 ELSE <<"N/A">>
  IN  CASE body.raised = "Timeout" -> <<"LLM request timed out after ", "<timeout>", " seconds.">>
        [] body.raised = "RequestException" -> <<"Error communicating with LLM: ">> \o body.exc
        [] body.raised = "JSONDecodeError" ->
             <<"Failed to decode LLM JSON response: ">> \o body.exc
               \o <<"\nRaw response glimpse: ">> \o glimpse
        [] body.raised = "ValueError" ->
             IF codude
             THEN <<"Invalid LLM response data: ">> \o body.exc
                    \o <<"\nRaw response glimpse: ">> \o glimpse
             ELSE <<"Invalid LLM response: ">> \o body.exc
        [] OTHER ->
             IF codude
             THEN <<"An unexpected error occurred during LLM request processing: ">> \o body.exc
             ELSE <<"Unexpected error: ">> \o body.exc

\* the exceptions the except clauses catch: the last clause is "except Exception"
Caught(raised) ==
  raised \in {"Timeout", "RequestException", "JSONDecodeError", "ValueError", "Exception"}

\* a run() without its last except clause
HandledNarrow(body, net, codude) ==
  LET named == {"Timeout", "RequestException", "JSONDecodeError", "ValueError"}
  IN  [emitted |-> IF body.raised \in named
                   THEN body.emitted \o <<ErrorSig(HandlerMessage(body, net, codude))>>
                   ELSE body.emitted,
       escaped |-> body.raised \notin (named \cup {"none"})]

\* try ... except: the outcome of run()
Handled(body, net, codude) ==
  [emitted |-> IF Caught(body.raised)
               THEN body.emitted \o <<ErrorSig(HandlerMessage(body, net, codude))>>
               ELSE body.emitted,
   escaped |-> body.raised # "none" /\ ~Caught(body.raised)]

\* LLMRequestThread.run of llm_client.py and of codude.py
RunClient(cfg, net) == Handled(TryBodyClient(cfg, net), net, FALSE)
RunCodude(cfg, net) == Handled(TryBodyCodude(cfg, net), net, TRUE)

\* did run() reach requests.post
PostedClient(cfg, net) == net.kind # "bad_text" /\ ConfigErrorClient(cfg) = <<>>
PostedCodude(cfg, net) == net.kind # "bad_text" /\ ConfigErrorCodude(cfg) = <<>>

\* s.split(c)
RECURSIVE SplitOn(_, _)
SplitOn(s, c) ==
  LET hits == {i \in 1..Len(s) : s[i] = c}
  IN  IF hits = {} THEN <<s>>
      ELSE <<SubSeq(s, 1, MinOf(hits) - 1)>> \o SplitOn(SubSeq(s, MinOf(hits) + 1, Len(s)), c)

\* f"{self.prompt}\n\nText: {self.text}" if self.text.strip() else self.prompt
UserContent(prompt, text) ==
  IF Strip(text) # <<>>
  THEN prompt \o <<"\n", "\n", "T", "e", "x", "t", ":", " ">> \o text
  ELSE prompt

UseToolsKeyword == <<"U", "S", "E", "T", "O", "O", "L", "S", ":">>

\* the user content sent by llm_client.py: user_content[9:].lstrip() after the keyword
SentContent(user_content) ==
  IF StartsWith(user_content, UseToolsKeyword)
  THEN LStripSet(SubSeq(user_content, Len(UseToolsKeyword) + 1, Len(user_content)), WS)
  ELSE user_content

\* [p.strip() for p in mcp_plugin_ids.split(',') if p.strip()]
PluginList(mcp_plugin_ids) ==
  LET parts == SplitOn(mcp_plugin_ids, ",")
      kept == SelectSeq(parts, LAMBDA p : Strip(p) # <<>>)
  IN  [i \in 1..Len(kept) |-> Strip(kept[i])]

\* tools whenever plugin ids are configured, whatever the keyword
ToolsWheneverConfigured(mcp_plugin_ids, require_usetools, user_content) ==
  Strip(mcp_plugin_ids) # <<>>

\* should_use_tools
ShouldUseTools(mcp_plugin_ids, require_usetools, user_content) ==
  /\ Strip(mcp_plugin_ids) # <<>>
  /\ require_usetools => StartsWith(user_content, UseToolsKeyword)

\* the body requests.post is given by llm_client.py: the user content, and the plugin
\* ids of payload["integrations"], none when the key is not set
PayloadClient(t) ==
  LET user_content == UserContent(t.prompt, t.text)
  IN  [posted |-> TRUE,
       content |-> SentContent(user_content),
       integrations |->
         IF t.cfg.provider = "LM Studio Native API"
              /\ ShouldUseTools(t.cfg.mcp_plugin_ids, t.require_usetools, user_content)
         THEN PluginList(t.cfg.mcp_plugin_ids)
         ELSE <<>>]

\* the body requests.post is given by the thread class of codude.py
PayloadCodude(t) ==
  [posted |-> TRUE, content |-> UserContent(t.prompt, t.text), integrations |-> <<>>]

\* no request made
NoPayload == [posted |-> FALSE, content |-> <<>>, integrations |-> <<>>]

(***************************************************************************)
(* The recently-used deque and the favorites list                          *)
(***************************************************************************)

\* deque.maxlen of an unbounded deque
None == -1

\* the maxlen of a plain list: there is no such attribute
NoAttribute == -2

\* the object has the attributes of a deque
IsDeque(d) == d.maxlen # NoAttribute

\* x in seq
InSeq(seq, x) == \E i \in 1..Len(seq) : seq[i] = x

\* seq.index(x), for x in seq
IndexOf(seq, x) == MinOf({i \in 1..Len(seq) : seq[i] = x})

\* seq.remove(x), for x in seq: the first occurrence goes
RemoveFirst(seq, x) ==
  SubSeq(seq, 1, IndexOf(seq, x) - 1) \o SubSeq(seq, IndexOf(seq, x) + 1, Len(seq))

\* deque(items, maxlen=maxlen): a bounded deque keeps the last maxlen items
DequeFromList(items, maxlen) ==
  IF maxlen = None \/ Len(items) <= maxlen THEN items
  ELSE SubSeq(items, Len(items) - maxlen + 1, Len(items))

\* an appendleft that never drops
AppendLeftUnbounded(items, maxlen, x) == <<x>> \o items

\* deque.appendleft(x): a full bounded deque drops its rightmost item
AppendLeft(items, maxlen, x) ==
  IF maxlen # None /\ Len(items) >= maxlen
  THEN SubSeq(<<x>> \o items, 1, maxlen)
  ELSE <<x>> \o items

\* "max_recents": 5 of default_config
DefaultMaxRecents == 5

\* a capacity that falls back to the default
MaxlenOrDefault(n) == IF n > 0 THEN n ELSE DefaultMaxRecents

\* maxlen=self.max_recents if self.max_recents > 0 else None
MaxlenFor(n) == IF n > 0 THEN n ELSE None

\* self.recently_used_recipes.maxlen != self.max_recents
MaxlenDiffers(maxlen, n) == maxlen = None \/ maxlen # n

\* the rebuild both execute_recipe_command and load_recipes_and_populate_list do
EnsureMaxlen(d, n) ==
  IF MaxlenDiffers(d.maxlen, n)
  THEN [items |-> DequeFromList(d.items, MaxlenFor(n)), maxlen |-> MaxlenFor(n)]
  ELSE d

\* the favorite prefix of a button text, "[S] "
StarPrefix == <<"[", "S", "]", " ">>

\* recipe_name.replace("[S] ", "").strip()
CleanedName(recipe_name) == Strip(RemoveAll(recipe_name, StarPrefix))

\* execute_recipe_command: the update of the recently-used deque
Touch(d, n, recipe_name, prompt) ==
  LET recipe_id == <<CleanedName(recipe_name), prompt>>
      removed == IF InSeq(d.items, recipe_id) THEN RemoveFirst(d.items, recipe_id) ELSE d.items
      pushed == [items |-> AppendLeft(removed, d.maxlen, recipe_id), maxlen |-> d.maxlen]
  IN  EnsureMaxlen(pushed, n)

\* a rekey that moves the identity to the end
RekeyToEnd(seq, old_id, new_id) ==
  IF InSeq(seq, old_id) THEN Append(RemoveFirst(seq, old_id), new_id) ELSE seq

\* edit_recipe_from_context_menu: temp_list[idx] = new_id
Rekey(seq, old_id, new_id) ==
  IF InSeq(seq, old_id) THEN [seq EXCEPT ![IndexOf(seq, old_id)] = new_id] ELSE seq

\* delete_recipe_from_context_menu: list.remove(id) if present
Drop(seq, id) == IF InSeq(seq, id) THEN RemoveFirst(seq, id) ELSE seq

\* a capacity test that always passes
FavoritesAlwaysHaveRoom(favorites, m) == TRUE

\* toggle_favorite_status: may recipe_id be appended
FavoritesHaveRoom(favorites, m) == Len(favorites) < m \/ m <= 0

(***************************************************************************)
(* Bounds and input sets                                                   *)
(***************************************************************************)

\* the largest max_recents / max_favorites the settings dialog is given
MaxCap == 2
\* request threads that may be outstanding at once
MaxThreads == 2
\* memory entries kept: a request is started only while its entry would still fit
MaxMemory == 3
\* lines of an initial recipes file
MaxLines == 2

nA == <<"A">>
nB == <<"B">>
nStarA == StarPrefix \o nA
pP == <<"p">>
pQ == <<"q">>
pXY == <<"x", " ", "y">>
pX_Y == <<"x", " ", " ", "y">>
pXTabY == <<"x", "\t", "y">>

\* "**name**: prompt"
RecipeLine(name, prompt) == <<"*", "*">> \o name \o <<"*", "*", ":", " ">> \o prompt

\* the lines initial files are made of (without their terminator)
FileLines ==
  { <<"#", " ", "G">>,
    <<>>,
    RecipeLine(nA, pP),
    RecipeLine(nA, pXY),
    RecipeLine(nA, pX_Y),
    <<" ">> \o RecipeLine(nB, pQ) \o <<" ">>,
    RecipeLine(<<>>, pP) }

\* every file of k such lines
RECURSIVE FilesOfLen(_)
FilesOfLen(k) ==
  IF k = 0 THEN {<<>>}
  ELSE {f \o l \o <<"\n">> : f \in FilesOfLen(k - 1), l \in FileLines}

\* every file of 1..MaxLines lines; the last line may lack its terminator
StoreFiles ==
  LET full == UNION {FilesOfLen(k) : k \in 1..MaxLines}
  IN  full \cup {SubSeq(f, 1, Len(f) - 1) : f \in full}

\* the file of the application runs: a recipe whose name holds the favorite mark
AppFiles ==
  { <<"#", " ", "G", "\n">> \o RecipeLine(nStarA, pP) \o <<"\n">>
      \o RecipeLine(nB, pQ) \o <<"\n">> }

\* the file of the runs about the two lists: three recipes
IndexFiles ==
  { RecipeLine(nA, pP) \o <<"\n">> \o RecipeLine(nB, pQ) \o <<"\n">>
      \o RecipeLine(nA, pQ) \o <<"\n">> }

\* a file of more recipes than the default capacity of the recently-used list
ManyFiles ==
  { RecipeLine(<<"A">>, pP) \o <<"\n">> \o RecipeLine(<<"B">>, pP) \o <<"\n">>
      \o RecipeLine(<<"C">>, pP) \o <<"\n">> \o RecipeLine(<<"D">>, pP) \o <<"\n">>
      \o RecipeLine(<<"E">>, pP) \o <<"\n">> \o RecipeLine(<<"F">>, pP) \o <<"\n">> }

\* what the edit dialog may return: stripped, non-empty; the name is one line
NewNames == {nB, <<"A", ":", "B">>}
NewPrompts == {pQ, <<"q", "\n", "r">>}

\* the result windows kept open at a time
MaxWindows == 2

\* the longest stored response that is still saved over
MaxHtmlLen == 4

\* the captured text pane
CapturedTexts == {<<>>, <<"t">>}

(***************************************************************************)
(* State                                                                   *)
(***************************************************************************)

VARIABLES
  recipes_file_content,   \* the text of the recipes file
  buttons,                \* the recipe ids the recipe pane has buttons for
  recently_used_recipes,  \* [items, maxlen]: the deque, leftmost first
  favorite_recipes,       \* the list
  max_recents,
  max_favorites,
  config_file,            \* config.json: the keys the lists depend on
  llm_api_config,         \* provider, url, api_key of the session
  captured_text,          \* captured_text_edit
  llm_threads,            \* the request threads not yet done with, oldest first
  _memory,                \* the memory entries
  dialog,                 \* the title of the last message box shown
  backups,                \* the backup directory and the log: see BackupOf
  recent_group,           \* the buttons of the "Recently Used" group, top first
  active_memory_index,    \* the entry the in-app results pane shows, or None
  result_windows,         \* the open ResultWindows, oldest first
  results_textedit,       \* the HTML the in-app results pane was given
  memory_dir,             \* the files of the memory directory
  results_in_app,         \* results_display is "In-App Textarea"
  permanent_memory,
  unhandled               \* the error that ended the process, or ""

index_vars == <<recently_used_recipes, favorite_recipes, max_recents, max_favorites, config_file>>
dispatch_vars == <<llm_threads, _memory>>
memory_vars == <<active_memory_index, result_windows, results_textedit, memory_dir,
                 results_in_app, permanent_memory>>
vars == <<recipes_file_content, buttons, index_vars, llm_api_config, captured_text,
          dispatch_vars, dialog, backups, recent_group, memory_vars, unhandled>>

SeqToSet(seq) == {seq[i] : i \in 1..Len(seq)}

\* the ids of the recipes of a file
FileIds(content) ==
  {NodeId(n) : n \in SeqToSet(RecipesOf(_parse_recipes_file_to_structure(content)))}

\* load_recipes_and_populate_list: a button per recipe of the two virtual groups
\* and of the file
ButtonsFor(content, recents, favorites) ==
  FileIds(content) \cup SeqToSet(recents) \cup SeqToSet(favorites)

\* _add_virtual_group_to_layout("Recently Used", ...): the list is reversed and a
\* button is added under the group's heading for each identity, top first
RecentlyUsedGroup(recipe_id_list) ==
  [i \in 1..Len(recipe_id_list) |-> recipe_id_list[Len(recipe_id_list) + 1 - i]]

\* _save_partial_config
SavePartial(cfg, key, value) == [cfg EXCEPT ![key] = value]

LocalConfig == [provider |-> "Local OpenAI-Compatible", url |-> <<"http://127.0.0.1:1234">>,
                api_key |-> <<>>, mcp_plugin_ids |-> <<>>]

\* LLMRequestThread(llm_config, prompt, text, timeout), started
NewThread(cfg, prompt, text, impl) ==
  [cfg |-> cfg, prompt |-> prompt, text |-> text, impl |-> impl, require_usetools |-> FALSE,
   pc |-> "running", net |-> NoReply, payload |-> NoPayload, emitted |-> <<>>,
   escaped |-> FALSE, handled |-> 0]

\* what the file system does during one rewrite: whether the backup copy is made,
\* and whether open(.., 'w') and writelines succeed; written is the number of lines
\* that reached the file when writelines failed
IoOk == [backup |-> TRUE, write |-> "ok", written |-> 0]

\* nothing backed up or logged yet
NoBackups == [newest |-> [suffix |-> "", content |-> <<>>], logged |-> ""]

\* a backup that copies nothing
BackupSkipped(b, content, suffix, ok) == b

\* _backup_recipes_file(suffix): the copy becomes the newest file of the backup
\* directory and is logged; a failing copy is logged as an error and nothing else
BackupOf(b, content, suffix, ok) ==
  IF ok THEN [newest |-> [suffix |-> suffix, content |-> content], logged |-> "info"]
  ELSE [b EXCEPT !.logged = "error"]

\* with open(self.recipes_file, 'w') as f: f.writelines(updated_lines): the file left
Written(content, updated_lines, io) ==
  IF io.write = "ok" THEN WriteLines(updated_lines)
  ELSE IF io.write = "open_fails" THEN content
  ELSE WriteLines(SubSeq(updated_lines, 1, io.written))

(***************************************************************************)
(* validate_and_load_config, then load_recipes_and_populate_list           *)
(***************************************************************************)

LoadedRecents(cfg) ==
  [items |-> DequeFromList(cfg.recently_used_recipes, MaxlenFor(cfg.max_recents)),
   maxlen |-> MaxlenFor(cfg.max_recents)]

LoadedFavorites(cfg) == cfg.favorite_recipes

InitSession(files, configs, llm_configs, texts, displays, permanents) ==
  /\ recipes_file_content \in files
  /\ config_file \in configs
  /\ max_recents = config_file.max_recents
  /\ max_favorites = config_file.max_favorites
  /\ recently_used_recipes = LoadedRecents(config_file)
  /\ favorite_recipes = LoadedFavorites(config_file)
  /\ buttons = ButtonsFor(recipes_file_content, recently_used_recipes.items, favorite_recipes)
  /\ llm_api_config \in llm_configs
  /\ captured_text \in texts
  /\ _memory = <<>>
  /\ dialog = ""
  /\ backups = NoBackups
  /\ recent_group = RecentlyUsedGroup(recently_used_recipes.items)
  /\ active_memory_index = None
  /\ result_windows = <<>>
  /\ results_textedit = <<>>
  /\ memory_dir = {}
  /\ results_in_app \in displays
  /\ permanent_memory \in permanents
  /\ unhandled = ""

\* the default settings: results in separate windows, no permanent memory
InitWith(files, configs, llm_configs, texts) ==
  InitSession(files, configs, llm_configs, texts, {FALSE}, {FALSE})

\* a first run: no list stored yet
FreshConfigs(recents_caps, favorites_caps) ==
  [max_recents : recents_caps, max_favorites : favorites_caps,
   recently_used_recipes : {<<>>}, favorite_recipes : {<<>>}]

\* a later run: the lists an earlier run stored
StoredConfigs(recents_caps, favorites_caps, recents, favorites) ==
  [max_recents : recents_caps, max_favorites : favorites_caps,
   recently_used_recipes : recents, favorite_recipes : favorites]

(***************************************************************************)
(* Handlers of the main thread                                             *)
(***************************************************************************)

\* update_captured_text_area
UpdateCapturedTextFrom(texts) ==
  \E t \in texts :
    /\ captured_text' = t
    /\ UNCHANGED <<recipes_file_content, buttons, recent_group, index_vars, llm_api_config, memory_vars, unhandled, backups, dispatch_vars,
                   dialog>>

UpdateCapturedText == UpdateCapturedTextFrom(CapturedTexts)

\* the guards of execute_recipe_command that return before anything is done
ExecuteRefusal ==
  IF Strip(captured_text) = <<>> THEN "No Text"
  ELSE IF llm_api_config.url = <<>> /\ llm_api_config.provider = "Local OpenAI-Compatible"
  THEN "LLM URL Missing"
  ELSE IF llm_api_config.api_key = <<>> /\ llm_api_config.provider = "OpenAI API"
  THEN "API Key Missing"
  ELSE ""

\* execute_recipe_command, from the button of recipe id
ExecuteRecipeOf(id) ==
  IF ExecuteRefusal # ""
  THEN /\ dialog' = ExecuteRefusal
       /\ UNCHANGED <<recipes_file_content, buttons, recent_group, index_vars, llm_api_config, memory_vars, unhandled, backups,
                      captured_text, dispatch_vars>>
  ELSE /\ Len(llm_threads) < MaxThreads
       /\ Len(llm_threads) + Len(_memory) < MaxMemory
       /\ recently_used_recipes' = Touch(recently_used_recipes, max_recents, id[1], id[2])
       /\ config_file' = SavePartial(config_file, "recently_used_recipes",
                                     recently_used_recipes'.items)
       /\ llm_threads' = Append(llm_threads,
                                NewThread(llm_api_config, id[2], captured_text, "codude"))
       /\ UNCHANGED <<recipes_file_content, buttons, recent_group, favorite_recipes, max_recents,
                      max_favorites, llm_api_config, memory_vars, unhandled, backups, captured_text, _memory, dialog>>

ExecuteRecipe == \E id \in buttons : ExecuteRecipeOf(id)

\* toggle_favorite_status
ToggleFavoriteOf(id) ==
  IF ~InSeq(favorite_recipes, id) /\ ~FavoritesHaveRoom(favorite_recipes, max_favorites)
  THEN /\ dialog' = "Favorites Full"
       /\ UNCHANGED <<recipes_file_content, buttons, recent_group, index_vars, llm_api_config, memory_vars, unhandled, backups,
                      captured_text, dispatch_vars>>
  ELSE /\ favorite_recipes' = IF InSeq(favorite_recipes, id)
                              THEN RemoveFirst(favorite_recipes, id)
                              ELSE Append(favorite_recipes, id)
       /\ config_file' = SavePartial(config_file, "favorite_recipes", favorite_recipes')
       /\ recently_used_recipes' = EnsureMaxlen(recently_used_recipes, max_recents)
       /\ buttons' = ButtonsFor(recipes_file_content, recently_used_recipes'.items,
                                favorite_recipes')
       /\ recent_group' = RecentlyUsedGroup(recently_used_recipes'.items)
       /\ UNCHANGED <<recipes_file_content, max_recents, max_favorites, llm_api_config, memory_vars, unhandled, backups,
                      captured_text, dispatch_vars, dialog>>

ToggleFavorite == \E id \in buttons : ToggleFavoriteOf(id)

\* _update_recipe_in_file: the file it leaves
FileAfterUpdate(content, old_id, new_name, new_prompt) ==
  IF FoundInFile(ReadLines(content), old_id[1], old_id[2])
  THEN WriteLines(UpdatedLines(ReadLines(content), old_id[1], old_id[2], new_name, new_prompt))
  ELSE content

\* _remove_recipe_from_file: the file it leaves
FileAfterRemove(content, id) ==
  IF FoundInFile(ReadLines(content), id[1], id[2])
  THEN WriteLines(RemainingLines(ReadLines(content), id[1], id[2]))
  ELSE content

\* edit_recipe_from_context_menu, the dialog accepted with (new_name, new_prompt),
\* under file system outcome io
EditRecipeIO(id, new_name, new_prompt, io) ==
  LET lines == ReadLines(recipes_file_content)
      found == FoundInFile(lines, id[1], id[2])
      updated_lines == UpdatedLines(lines, id[1], id[2], new_name, new_prompt)
      new_id == <<new_name, new_prompt>>
      rekeyed == [recently_used_recipes EXCEPT !.items = Rekey(@, id, new_id)]
  IN  /\ io.write # "ok" => found
      /\ io.write = "write_fails" => io.written < Len(updated_lines)
      /\ backups' = BackupOf(backups, recipes_file_content, "before_edit", io.backup)
      /\ IF ~found \/ io.write # "ok"
         THEN /\ dialog' = "Edit Error"
              /\ recipes_file_content' =
                   IF found THEN Written(recipes_file_content, updated_lines, io)
                   ELSE recipes_file_content
              /\ UNCHANGED <<buttons, recent_group, index_vars, llm_api_config, memory_vars, unhandled, captured_text, dispatch_vars>>
         ELSE /\ recipes_file_content' =
                   FileAfterUpdate(recipes_file_content, id, new_name, new_prompt)
              /\ favorite_recipes' = Rekey(favorite_recipes, id, new_id)
              /\ recently_used_recipes' = EnsureMaxlen(rekeyed, max_recents)
              /\ config_file' =
                   [config_file EXCEPT
                      !.recently_used_recipes =
                         IF InSeq(recently_used_recipes.items, id) THEN rekeyed.items ELSE @,
                      !.favorite_recipes =
                         IF InSeq(favorite_recipes, id) THEN favorite_recipes' ELSE @]
              /\ buttons' = ButtonsFor(recipes_file_content', recently_used_recipes'.items,
                                       favorite_recipes')
              /\ recent_group' = RecentlyUsedGroup(recently_used_recipes'.items)
              /\ UNCHANGED <<max_recents, max_favorites, llm_api_config, memory_vars, unhandled, captured_text,
                             dispatch_vars, dialog>>

\* the same, the file system working
EditRecipeOf(id, new_name, new_prompt) == EditRecipeIO(id, new_name, new_prompt, IoOk)

\* the file is kept small: an edit whose prompt holds a line break adds a line
EditRecipeWith(names, prompts) ==
  \E id \in buttons, new_name \in names, new_prompt \in prompts :
    /\ Len(ReadLines(recipes_file_content)) <= MaxLines + 1
    /\ EditRecipeOf(id, new_name, new_prompt)

EditRecipe == EditRecipeWith({nB}, {pQ})

\* delete_recipe_from_context_menu, the question answered Yes, under file system
\* outcome io
DeleteRecipeIO(id, io) ==
  LET lines == ReadLines(recipes_file_content)
      found == FoundInFile(lines, id[1], id[2])
      updated_lines == RemainingLines(lines, id[1], id[2])
      dropped == [recently_used_recipes EXCEPT !.items = Drop(@, id)]
  IN  /\ io.write # "ok" => found
      /\ io.write = "write_fails" => io.written < Len(updated_lines)
      /\ backups' = BackupOf(backups, recipes_file_content, "before_delete", io.backup)
      /\ IF ~found \/ io.write # "ok"
         THEN /\ dialog' = "Delete Error"
              /\ recipes_file_content' =
                   IF found THEN Written(recipes_file_content, updated_lines, io)
                   ELSE recipes_file_content
              /\ UNCHANGED <<buttons, recent_group, index_vars, llm_api_config, memory_vars, unhandled, captured_text, dispatch_vars>>
         ELSE /\ recipes_file_content' = FileAfterRemove(recipes_file_content, id)
              /\ favorite_recipes' = Drop(favorite_recipes, id)
              /\ recently_used_recipes' = EnsureMaxlen(dropped, max_recents)
              /\ config_file' =
                   [config_file EXCEPT
                      !.recently_used_recipes =
                         IF InSeq(recently_used_recipes.items, id) THEN dropped.items ELSE @,
                      !.favorite_recipes =
                         IF InSeq(favorite_recipes, id) THEN favorite_recipes' ELSE @]
              /\ buttons' = ButtonsFor(recipes_file_content', recently_used_recipes'.items,
                                       favorite_recipes')
              /\ recent_group' = RecentlyUsedGroup(recently_used_recipes'.items)
              /\ UNCHANGED <<max_recents, max_favorites, llm_api_config, memory_vars, unhandled, captured_text,
                             dispatch_vars, dialog>>

\* the same, the file system working
DeleteRecipeOf(id) == DeleteRecipeIO(id, IoOk)

DeleteRecipe == \E id \in buttons : DeleteRecipeOf(id)

\* open_config_window, the dialog saved with capacities n and m, the results display
\* and the permanent memory switch: save_config_values writes the file,
\* validate_and_load_config reads it back, the pane is rebuilt
SaveConfigWith(n, m, in_app, permanent) ==
  /\ config_file' = [max_recents |-> n, max_favorites |-> m,
                     recently_used_recipes |-> recently_used_recipes.items,
                     favorite_recipes |-> favorite_recipes]
  /\ max_recents' = n
  /\ max_favorites' = m
  /\ recently_used_recipes' = EnsureMaxlen(LoadedRecents(config_file'), n)
  /\ favorite_recipes' = LoadedFavorites(config_file')
  /\ buttons' = ButtonsFor(recipes_file_content, recently_used_recipes'.items,
                           favorite_recipes')
  /\ recent_group' = RecentlyUsedGroup(recently_used_recipes'.items)
  /\ dialog' = "Config Saved"
  /\ results_in_app' = in_app
  /\ permanent_memory' = permanent
  /\ UNCHANGED <<recipes_file_content, llm_api_config, active_memory_index, result_windows,
                 results_textedit, memory_dir, unhandled, backups, captured_text,
                 dispatch_vars>>

\* the same, the display and the memory switch left as they are
SaveConfigOf(n, m) == SaveConfigWith(n, m, results_in_app, permanent_memory)

(***************************************************************************)
(* The request thread and the delivery of its signals                      *)
(***************************************************************************)

Message(content) == JDict(<<JPair("message", JDict(<<JPair("content", content)>>))>>)
Choices(content) == JPair("choices", JList(<<Message(content)>>))
OutputItem(type, content) ==
  JDict(<<JPair("type", JStr(<<type>>)), JPair("content", content)>>)

\* reply bodies
BodyChoicesAndText == JDict(<<Choices(JStr(<<"X">>)), JPair("text", JStr(<<"Y">>))>>)
BodyTextOnly == JDict(<<JPair("text", JStr(<<"Y">>))>>)
BodyResponseOnly == JDict(<<JPair("response", JStr(<<"Z">>))>>)
BodyContentOnly == JDict(<<JPair("content", JStr(<<"C">>))>>)
BodyOutput ==
  JDict(<<JPair("output", JList(<<OutputItem("message", JStr(<<"O1">>)),
                                  OutputItem("message", JStr(<<"O2">>)),
                                  OutputItem("reasoning", JStr(<<"R">>))>>)),
          Choices(JStr(<<"X">>)), JPair("text", JStr(<<"Y">>))>>)
BodyOutputNoMessage ==
  JDict(<<JPair("output", JList(<<OutputItem("reasoning", JStr(<<"R">>))>>))>>)
BodyNullContent == JDict(<<Choices(JNone), JPair("response", JStr(<<"Z">>))>>)
BodyNumberContent == JDict(<<Choices(JNum(5))>>)
BodyEmptyDict == JDict(<<>>)
BodyList == JList(<<JNum(1)>>)
BodyNoContent == JDict(<<JPair("id", JNum(7))>>)
\* error bodies
BodyErrorMessage == JDict(<<JPair("error", JDict(<<JPair("message", JStr(<<"bad key">>))>>))>>)
BodyErrorString == JDict(<<JPair("error", JStr(<<"overloaded">>))>>)
BodyErrorNumber == JDict(<<JPair("error", JNum(3))>>)

JsonBodies ==
  { BodyChoicesAndText, BodyTextOnly, BodyResponseOnly, BodyContentOnly, BodyOutput,
    BodyOutputNoMessage, BodyNullContent, BodyNumberContent, BodyEmptyDict, BodyList,
    BodyNoContent, BodyErrorMessage, BodyErrorString, BodyErrorNumber }

\* bodies that are not JSON: a short one and one longer than the excerpt
ShortText == <<"<", "h", "t", "m", "l", ">">>
LongText == [i \in 1..(RawExcerptLen + 1) |-> IF i > RawExcerptLen THEN "!" ELSE "x"]
TextBodies == {ShortText, LongText}

StatusCodes == {200, 401, 500}

NetOutcomes ==
  {NetFailed(k) : k \in {"timeout", "request_exception", "unexpected", "bad_text"}}
  \cup {NetJson(c, j) : c \in StatusCodes, j \in JsonBodies}
  \cup {NetText(c, t, l) : c \in StatusCodes, t \in TextBodies, l \in BOOLEAN}

\* the outcomes the application runs draw from
AppNetOutcomes ==
  {NetFailed("timeout"), NetJson(200, BodyChoicesAndText), NetJson(401, BodyErrorMessage)}

\* LLMRequestThread.run of the class the thread is an instance of
RunOf(t, net) == IF t.impl = "codude" THEN RunCodude(t.cfg, net) ELSE RunClient(t.cfg, net)

PostedOf(t, net) ==
  IF t.impl = "codude" THEN PostedCodude(t.cfg, net) ELSE PostedClient(t.cfg, net)

PayloadOf(t) == IF t.impl = "codude" THEN PayloadCodude(t) ELSE PayloadClient(t)

\* thread i runs to its end, the network doing net
ThreadRunOf(i, net) ==
  /\ llm_threads[i].pc = "running"
  /\ llm_threads' = [llm_threads EXCEPT ![i].pc = "finished",
                                        ![i].net = IF PostedOf(llm_threads[i], net)
                                                   THEN net ELSE NoReply,
                                        ![i].payload = IF PostedOf(llm_threads[i], net)
                                                       THEN PayloadOf(llm_threads[i])
                                                       ELSE NoPayload,
                                        ![i].emitted = RunOf(llm_threads[i], net).emitted,
                                        ![i].escaped = RunOf(llm_threads[i], net).escaped]
  /\ UNCHANGED <<recipes_file_content, buttons, recent_group, index_vars, llm_api_config, memory_vars, unhandled, backups, captured_text,
                 _memory, dialog>>

ThreadRunWith(outcomes) == \E i \in 1..Len(llm_threads), net \in outcomes : ThreadRunOf(i, net)

ThreadRun == ThreadRunWith(AppNetOutcomes)

\* the threads without thread i
WithoutThread(i) == SubSeq(llm_threads, 1, i - 1) \o SubSeq(llm_threads, i + 1, Len(llm_threads))

\* an entry with the text and the prompt in each other's place
MemoryEntrySwapped(t, response_text) ==
  [captured_text |-> t.prompt, prompt |-> t.text, response |-> response_text,
   filename |-> <<>>]

\* handle_llm_response: the entry appended to the memory when no file is written
MemoryEntry(t, response_text) ==
  [captured_text |-> t.text, prompt |-> t.prompt, response |-> response_text, filename |-> <<>>]

\* the characters of the model for which c.isalnum() holds
AlnumChars == {"A", "B", "p", "q", "r", "t", "x", "y"}

\* safe_prompt_tag: the characters of prompt[:25] a file name may hold, stripped
SafePromptTag(prompt) ==
  LET kept == Strip(SelectSeq(SubSeq(prompt, 1, MinOf({25, Len(prompt)})),
                              LAMBDA c : c \in AlnumChars \cup {" ", "-", "_"}))
  IN  IF kept = <<>> THEN <<"e", "n", "t", "r", "y">> ELSE kept

\* f"{safe_prompt_tag}_{timestamp}.md", the clock reading now (in seconds)
MemoryFilename(prompt, now) == <<SafePromptTag(prompt), now>>

\* the labeled-block layout of a backing file; each label is one symbol
MemoryContent(captured, prompt, response_text) ==
  <<"Captured Text:", "\n">> \o captured \o <<"\n", "\n", "Prompt:", "\n">> \o prompt
    \o <<"\n", "\n", "LLM Response:", "\n">> \o response_text

\* open(file_path, 'w') and write: the directory afterwards
WriteFile(dir, filename, content) ==
  {f \in dir : f.filename # filename} \cup {[filename |-> filename, content |-> content]}

\* os.remove(file_path)
RemoveFile(dir, filename) == {f \in dir : f.filename # filename}

\* os.path.exists(file_path)
FileExists(dir, filename) == \E f \in dir : f.filename = filename

\* format_markdown_for_display: python-markdown renders the text as HTML
FormatMarkdown(markdown_text) == <<"<p>">> \o markdown_text \o <<"</p>">>

\* QTextEdit.toHtml(): the whole document, with its doctype, head and style
ToHtml(html) == <<"<!DOCTYPE HTML>">> \o html

\* response_content.strip().startswith('<')
LooksLikeHtml(response_content) ==
  Strip(response_content) # <<>>
    /\ Strip(response_content)[1] \in {"<", "<p>", "<b>", "<!DOCTYPE HTML>"}

\* the first index at or after start where pat occurs in s, or 0
FindFrom(s, pat, start) ==
  LET hits == {i \in start..(Len(s) - Len(pat) + 1) : SubSeq(s, i, i + Len(pat) - 1) = pat}
  IN  IF hits = {} THEN 0 ELSE MinOf(hits)

\* command_name: the first **...** of the prompt on one line, or the first line of
\* what precedes the first colon
CommandName(prompt) ==
  LET bold == <<"*", "*">>
      close(a) == FindFrom(prompt, bold, a + 2)
      starts == {a \in 1..Len(prompt) :
                   /\ FindFrom(prompt, bold, a) = a
                   /\ close(a) > 0
                   /\ ~Contains(SubSeq(prompt, a + 2, close(a) - 1), "\n")}
  IN  IF starts # {}
      THEN SubSeq(prompt, MinOf(starts) + 2, close(MinOf(starts)) - 1)
      ELSE SplitOn(SplitOn(prompt, ":")[1], "\n")[1]

\* the document of a ResultWindow for a memory entry
WindowHtml(captured, prompt, response_text) ==
  <<"<b>", "Command:">> \o CommandName(prompt) \o <<"<b>", "Text:">> \o captured
    \o <<"<b>", "LLM Reply:">> \o FormatMarkdown(response_text)

\* ResultWindow(response_text, parent_app, memory_index), the memory being memory
ResultWindow(response_text, memory, memory_index) ==
  [memory_index |-> memory_index,
   html |-> IF memory_index # None /\ 0 <= memory_index /\ memory_index < Len(memory)
            THEN WindowHtml(memory[memory_index + 1].captured_text,
                            memory[memory_index + 1].prompt, response_text)
            ELSE <<"<b>", "LLM Reply:">> \o FormatMarkdown(response_text)]

\* save_memory_content_change: the memory afterwards
SavedMemory(memory, memory_idx_to_save, new_html_content) ==
  IF ~(0 <= memory_idx_to_save /\ memory_idx_to_save < Len(memory)) THEN memory
  ELSE IF new_html_content # memory[memory_idx_to_save + 1].response
  THEN [memory EXCEPT ![memory_idx_to_save + 1].response = new_html_content]
  ELSE memory

\* save_memory_content_change: the memory directory afterwards
SavedDir(dir, memory, memory_idx_to_save, new_html_content, permanent) ==
  IF ~(0 <= memory_idx_to_save /\ memory_idx_to_save < Len(memory)) THEN dir
  ELSE LET e == memory[memory_idx_to_save + 1]
       IN  IF new_html_content # e.response /\ permanent /\ e.filename # <<>>
           THEN WriteFile(dir, e.filename,
                          MemoryContent(e.captured_text, e.prompt, new_html_content))
           ELSE dir

\* the times the clock may show when a response arrives
Timestamps == {1, 2}

\* handle_llm_response for the response of thread t, the clock reading now and the
\* writing of the backing file succeeding or not
HandleResponse(t, response_text, now, write_ok) ==
  LET filename == IF permanent_memory /\ write_ok THEN MemoryFilename(t.prompt, now)
                  ELSE <<>>
      current_memory_idx == Len(_memory)
  IN  /\ memory_dir' = IF permanent_memory /\ write_ok
                       THEN WriteFile(memory_dir, filename,
                                      MemoryContent(t.text, t.prompt, response_text))
                       ELSE memory_dir
      /\ _memory' = Append(_memory, [MemoryEntry(t, response_text) EXCEPT !.filename = filename])
      /\ IF results_in_app
         THEN /\ results_textedit' = FormatMarkdown(response_text)
              /\ active_memory_index' = current_memory_idx
              /\ UNCHANGED result_windows
         ELSE /\ result_windows' = Append(result_windows,
                                          ResultWindow(response_text, _memory',
                                                       current_memory_idx))
              /\ UNCHANGED <<results_textedit, active_memory_index>>
      /\ UNCHANGED <<results_in_app, permanent_memory>>

\* the main thread takes the next signal of finished thread i: handle_llm_response
\* records the response, handle_llm_error shows the message; a thread all of whose
\* signals are taken is done with
DeliverSignalAt(i, now, write_ok) ==
  LET t == llm_threads[i]
      sig == t.emitted[t.handled + 1]
  IN  /\ t.pc = "finished"
      /\ IF t.handled < Len(t.emitted)
         THEN /\ IF sig.sig = "response_received"
                 THEN HandleResponse(t, sig.msg, now, write_ok) /\ UNCHANGED dialog
                 ELSE dialog' = "LLM Error" /\ UNCHANGED <<_memory, memory_vars>>
              /\ llm_threads' = IF t.handled + 1 >= Len(t.emitted) THEN WithoutThread(i)
                                ELSE [llm_threads EXCEPT ![i].handled = @ + 1]
         ELSE /\ llm_threads' = WithoutThread(i)
              /\ UNCHANGED <<_memory, dialog, memory_vars>>
      /\ UNCHANGED <<recipes_file_content, buttons, recent_group, index_vars, llm_api_config,
                     unhandled, backups, captured_text>>

DeliverSignalWithin(i, times) ==
  \E now \in times, write_ok \in BOOLEAN : DeliverSignalAt(i, now, write_ok)

DeliverSignalOf(i) == DeliverSignalWithin(i, Timestamps)

DeliverSignal == \E i \in 1..Len(llm_threads) : DeliverSignalOf(i)

\* load_recipes_and_populate_list on its own, as __init__ calls it once the
\* configuration is loaded: the deque is given the configured capacity and the pane
\* is built; .maxlen of a plain list raises AttributeError, which nothing catches
LoadRecipesAndPopulateList ==
  /\ unhandled = ""
  /\ IF ~IsDeque(recently_used_recipes)
     THEN /\ unhandled' = "AttributeError"
          /\ UNCHANGED <<recently_used_recipes, buttons, recent_group>>
     ELSE /\ recently_used_recipes' = EnsureMaxlen(recently_used_recipes, max_recents)
          /\ buttons' = ButtonsFor(recipes_file_content, recently_used_recipes'.items,
                                   favorite_recipes)
          /\ recent_group' = RecentlyUsedGroup(recently_used_recipes'.items)
          /\ UNCHANGED unhandled
  /\ UNCHANGED <<recipes_file_content, favorite_recipes, max_recents, max_favorites,
                 config_file, llm_api_config, captured_text, dispatch_vars, dialog, backups,
                 memory_vars>>

(***************************************************************************)
(* The memory list, the results pane and the result windows                *)
(***************************************************************************)

\* list.pop(index), index counted from 0
PopAt(seq, index) == SubSeq(seq, 1, index) \o SubSeq(seq, index + 2, Len(seq))

\* a deletion that leaves the active index alone
ActiveKept(active, index_to_delete) == active

\* the adjustment of active_memory_index by a deletion at index_to_delete
ActiveAfterDelete(active, index_to_delete) ==
  IF active = None THEN None
  ELSE IF active = index_to_delete THEN None
  ELSE IF active > index_to_delete THEN active - 1
  ELSE active

\* a deletion that removes no file
DirKept(dir, permanent, filename_to_delete, removable) == dir

\* the file removal of a deletion: only with permanent memory on, a file name and an
\* existing file; removable is FALSE when os.remove raises OSError
DirAfterDelete(dir, permanent, filename_to_delete, removable) ==
  IF permanent /\ filename_to_delete # <<>> /\ FileExists(dir, filename_to_delete) /\ removable
  THEN RemoveFile(dir, filename_to_delete)
  ELSE dir

\* delete_memory_entry_from_button for the item in row index_to_delete, the question
\* answered Yes
DeleteMemoryEntryIO(index_to_delete, removable) ==
  /\ 0 <= index_to_delete /\ index_to_delete < Len(_memory)
  /\ dialog' = "Confirm Deletion"
  /\ _memory' = PopAt(_memory, index_to_delete)
  /\ memory_dir' = DirAfterDelete(memory_dir, permanent_memory,
                                  _memory[index_to_delete + 1].filename, removable)
  /\ active_memory_index' = ActiveAfterDelete(active_memory_index, index_to_delete)
  /\ results_textedit' = IF active_memory_index = index_to_delete /\ results_in_app
                         THEN <<>> ELSE results_textedit
  /\ UNCHANGED <<recipes_file_content, buttons, recent_group, index_vars, llm_api_config,
                 captured_text, llm_threads, backups, result_windows, results_in_app,
                 permanent_memory, unhandled>>

DeleteMemoryEntry ==
  \E index \in 0..(Len(_memory) - 1), removable \in BOOLEAN :
    DeleteMemoryEntryIO(index, removable)

\* the document show_memory_entry_from_list_item gives the results pane: a stored
\* response that looks like HTML is shown as it is
EntryHtml(entry) ==
  <<"<b>", "Original Captured Text:">> \o entry.captured_text
    \o <<"<b>", "Original Prompt:">> \o entry.prompt \o <<"<hr/>", "<b>", "LLM Reply:">>
    \o (IF LooksLikeHtml(entry.response) THEN entry.response
        ELSE FormatMarkdown(entry.response))

\* show_memory_entry_from_list_item for the item in row index
ShowMemoryEntryOf(index) ==
  /\ 0 <= index /\ index < Len(_memory)
  /\ IF results_in_app
     THEN LET switching == active_memory_index # None /\ active_memory_index # index
          IN  /\ _memory' = IF switching
                            THEN SavedMemory(_memory, active_memory_index,
                                             ToHtml(results_textedit))
                            ELSE _memory
              /\ memory_dir' = IF switching
                               THEN SavedDir(memory_dir, _memory, active_memory_index,
                                             ToHtml(results_textedit), permanent_memory)
                               ELSE memory_dir
              /\ results_textedit' = EntryHtml(_memory[index + 1])
              /\ active_memory_index' = index
              /\ UNCHANGED result_windows
     ELSE /\ IF \E w \in 1..Len(result_windows) : result_windows[w].memory_index = index
             THEN UNCHANGED result_windows
             ELSE /\ Len(result_windows) < MaxWindows
                  /\ result_windows' =
                       Append(result_windows,
                              ResultWindow(_memory[index + 1].response, _memory, index))
          /\ UNCHANGED <<_memory, memory_dir, results_textedit, active_memory_index>>
  /\ UNCHANGED <<recipes_file_content, buttons, recent_group, index_vars, llm_api_config,
                 captured_text, llm_threads, dialog, backups, results_in_app,
                 permanent_memory, unhandled>>

ShowMemoryEntry == \E index \in 0..(Len(_memory) - 1) : ShowMemoryEntryOf(index)

\* ResultWindow.focusOutEvent of open window w
ResultWindowFocusOutOf(w) ==
  LET win == result_windows[w]
  IN  /\ _memory' = SavedMemory(_memory, win.memory_index, ToHtml(win.html))
      /\ memory_dir' = SavedDir(memory_dir, _memory, win.memory_index, ToHtml(win.html),
                                permanent_memory)
      /\ UNCHANGED <<recipes_file_content, buttons, recent_group, index_vars,
                     llm_api_config, captured_text, llm_threads, dialog, backups,
                     active_memory_index, result_windows, results_textedit,
                     results_in_app, permanent_memory, unhandled>>

ResultWindowFocusOut == \E w \in 1..Len(result_windows) : ResultWindowFocusOutOf(w)

\* ResultWindow.closeEvent of open window w
ResultWindowCloseOf(w) ==
  LET win == result_windows[w]
  IN  /\ _memory' = SavedMemory(_memory, win.memory_index, ToHtml(win.html))
      /\ memory_dir' = SavedDir(memory_dir, _memory, win.memory_index, ToHtml(win.html),
                                permanent_memory)
      /\ result_windows' = PopAt(result_windows, w - 1)
      /\ UNCHANGED <<recipes_file_content, buttons, recent_group, index_vars,
                     llm_api_config, captured_text, llm_threads, dialog, backups,
                     active_memory_index, results_textedit, results_in_app,
                     permanent_memory, unhandled>>

ResultWindowClose == \E w \in 1..Len(result_windows) : ResultWindowCloseOf(w)

\* focusOutEvent of the main window, the focus going outside the application
MainFocusOut ==
  /\ results_in_app /\ active_memory_index # None
  /\ _memory' = SavedMemory(_memory, active_memory_index, ToHtml(results_textedit))
  /\ memory_dir' = SavedDir(memory_dir, _memory, active_memory_index,
                            ToHtml(results_textedit), permanent_memory)
  /\ UNCHANGED <<recipes_file_content, buttons, recent_group, index_vars, llm_api_config,
                 captured_text, llm_threads, dialog, backups, active_memory_index,
                 result_windows, results_textedit, results_in_app, permanent_memory,
                 unhandled>>

\* re.search(A + "(.*?)" + B, content, re.DOTALL): the first A that a B follows,
\* and the shortest text between them
SearchBetween(content, A, B) ==
  LET a == FindFrom(content, A, 1)
      b == IF a = 0 THEN 0 ELSE FindFrom(content, B, a + Len(A))
  IN  IF b = 0 THEN [found |-> FALSE, group |-> <<>>]
      ELSE [found |-> TRUE, group |-> SubSeq(content, a + Len(A), b - 1)]

\* re.search(A + "(.*)", content, re.DOTALL): the rest after the first A
SearchAfter(content, A) ==
  LET a == FindFrom(content, A, 1)
  IN  IF a = 0 THEN [found |-> FALSE, group |-> <<>>]
      ELSE [found |-> TRUE, group |-> SubSeq(content, a + Len(A), Len(content))]

\* load_permanent_memory_entries: the entries parsed from one file, none if a part
\* is not found
ParsedEntries(f) ==
  LET cap_text_m == SearchBetween(f.content, <<"Captured Text:", "\n">>,
                                  <<"\n", "\n", "Prompt:">>)
      prompt_m == SearchBetween(f.content, <<"Prompt:", "\n">>,
                                <<"\n", "\n", "LLM Response:">>)
      response_m == SearchAfter(f.content, <<"LLM Response:", "\n">>)
  IN  IF cap_text_m.found /\ prompt_m.found /\ response_m.found
      THEN <<[captured_text |-> Strip(cap_text_m.group), prompt |-> Strip(prompt_m.group),
              response |-> Strip(response_m.group), filename |-> f.filename]>>
      ELSE <<>>

\* the files oldest first; the time in the file name stands for the modification
\* time, files of the same second come in one of their orders
RECURSIVE OldestFirst(_)
OldestFirst(dir) ==
  IF dir = {} THEN <<>>
  ELSE LET f == CHOOSE g \in dir : \A h \in dir : g.filename[2] <= h.filename[2]
       IN  <<f>> \o OldestFirst(dir \ {f})

RECURSIVE ParsedAll(_)
ParsedAll(files) ==
  IF files = <<>> THEN <<>> ELSE ParsedEntries(Head(files)) \o ParsedAll(Tail(files))

\* load_permanent_memory_entries
LoadedMemory(dir) == ParsedAll(OldestFirst(dir))

\* the application is closed and started again: __init__ reads the configuration
\* and the recipes, and with permanent memory on the files of the memory directory
RestartSession ==
  /\ max_recents' = config_file.max_recents
  /\ max_favorites' = config_file.max_favorites
  /\ recently_used_recipes' = LoadedRecents(config_file)
  /\ favorite_recipes' = LoadedFavorites(config_file)
  /\ buttons' = ButtonsFor(recipes_file_content, recently_used_recipes'.items,
                           favorite_recipes')
  /\ recent_group' = RecentlyUsedGroup(recently_used_recipes'.items)
  /\ captured_text' = <<>>
  /\ llm_threads' = <<>>
  /\ _memory' = IF permanent_memory THEN LoadedMemory(memory_dir) ELSE <<>>
  /\ dialog' = ""
  /\ active_memory_index' = None
  /\ result_windows' = <<>>
  /\ results_textedit' = <<>>
  /\ UNCHANGED <<recipes_file_content, config_file, llm_api_config, backups, memory_dir,
                 results_in_app, permanent_memory, unhandled>>

(***************************************************************************)
(* Specifications                                                          *)
(***************************************************************************)

\* the application running recipes: the pane, the threads it starts, their signals
Init ==
  /\ InitWith(AppFiles, FreshConfigs(1..MaxCap, {MaxCap}), {LocalConfig}, {<<>>})
  /\ llm_threads = <<>>

Next ==
  \/ UpdateCapturedText
  \/ ExecuteRecipe
  \/ ThreadRun
  \/ DeliverSignal

Spec == Init /\ [][Next]_vars

\* the recently-used list under executions, edits and settings changes;
\* the requests all fail, so that the memory stays as it is
InitRecents ==
  /\ InitWith(IndexFiles, FreshConfigs(0..MaxCap, {MaxCap}), {LocalConfig}, {<<"t">>})
  /\ llm_threads = <<>>

SaveRecentsConfig == \E n \in 0..MaxCap : SaveConfigOf(n, max_favorites)

FailingOutcomes == {NetFailed("timeout")}

ThreadRunFailing == ThreadRunWith(FailingOutcomes)

NextRecents ==
  \/ ExecuteRecipe
  \/ EditRecipe
  \/ SaveRecentsConfig
  \/ ThreadRunFailing
  \/ DeliverSignal

SpecRecents == InitRecents /\ [][NextRecents]_vars

\* the favorites list under toggles, edits, deletions and settings changes
InitFavorites ==
  /\ InitWith(IndexFiles, FreshConfigs({MaxCap}, 0..MaxCap), {LocalConfig}, {<<>>})
  /\ llm_threads = <<>>

SaveFavoritesConfig == \E m \in 0..MaxCap : SaveConfigOf(max_recents, m)

NextFavorites ==
  \/ ToggleFavorite
  \/ EditRecipe
  \/ DeleteRecipe
  \/ SaveFavoritesConfig

SpecFavorites == InitFavorites /\ [][NextFavorites]_vars

\* the recipes file under edits and deletions, from every small file
InitStore ==
  /\ InitWith(StoreFiles, FreshConfigs({MaxCap}, {MaxCap}), {LocalConfig}, {<<>>})
  /\ llm_threads = <<>>

EditStoredRecipe == EditRecipeWith(NewNames, NewPrompts)

NextStore == EditStoredRecipe \/ DeleteRecipe

SpecStore == InitStore /\ [][NextStore]_vars

\* an edit that gives a new name
EditRenaming == EditRecipeWith(NewNames, {pQ})

\* the files the parser reads: every small file, and what edits make of them
NextParse == EditRenaming

SpecParse == InitStore /\ [][NextParse]_vars

\* the search of the two rewrites: the stored favorite is a recipe whose line was
\* since rewritten with other whitespace, or removed
InitMatch ==
  /\ InitWith(StoreFiles, StoredConfigs({MaxCap}, {MaxCap}, {<<>>}, {<<<<nA, pXTabY>>>>}),
              {LocalConfig}, {<<>>})
  /\ llm_threads = <<>>

NextMatch == EditRecipe \/ DeleteRecipe

SpecMatch == InitMatch /\ [][NextMatch]_vars

\* edits and deletions of recipes both lists hold, the lists stored by an earlier run
InitRekey ==
  /\ InitWith(IndexFiles,
              StoredConfigs({MaxCap}, {MaxCap},
                            {<<<<nB, pQ>>, <<nA, pP>>>>},
                            {<<>>, <<<<nA, pP>>, <<nB, pQ>>>>}),
              {LocalConfig}, {<<>>})
  /\ llm_threads = <<>>

NextRekey == EditRenaming \/ DeleteRecipe

SpecRekey == InitRekey /\ [][NextRekey]_vars

\* max_recents = 0: executions of six recipes, the settings saved unchanged
InitUnlimited ==
  /\ InitWith(ManyFiles, FreshConfigs({0}, {MaxCap}), {LocalConfig}, {<<"t">>})
  /\ llm_threads = <<>>

ReloadConfig == SaveConfigOf(max_recents, max_favorites)

\* the user works down the file, one request at a time, running the first recipe
\* that is not in the list yet, or runs the recipe at the end of the list again
FirstUnlisted(id) ==
  LET in_file == RecipesOf(_parse_recipes_file_to_structure(recipes_file_content))
  IN  /\ ~InSeq(recently_used_recipes.items, id)
      /\ \E k \in 1..Len(in_file) :
           /\ NodeId(in_file[k]) = id
           /\ \A j \in 1..(k - 1) :
                InSeq(recently_used_recipes.items, NodeId(in_file[j]))

OldestListed(id) ==
  /\ recently_used_recipes.items # <<>>
  /\ id = recently_used_recipes.items[Len(recently_used_recipes.items)]

ExecuteDownTheFile ==
  /\ llm_threads = <<>>
  /\ \E id \in buttons : (FirstUnlisted(id) \/ OldestListed(id)) /\ ExecuteRecipeOf(id)

NextUnlimited ==
  \/ ExecuteDownTheFile
  \/ ReloadConfig
  \/ ThreadRunFailing
  \/ DeliverSignal

SpecUnlimited == InitUnlimited /\ [][NextUnlimited]_vars

\* edits and deletions under a file system that may fail: the backup copy, the
\* opening of the file for writing, or writelines after some of the lines
IoOutcomes ==
  {[backup |-> b, write |-> w, written |-> 0] : b \in BOOLEAN, w \in {"ok", "open_fails"}}
    \cup {[backup |-> b, write |-> "write_fails", written |-> k] :
            b \in BOOLEAN, k \in 0..MaxLines}

InitIO ==
  /\ InitWith(IndexFiles, FreshConfigs({MaxCap}, {MaxCap}), {LocalConfig}, {<<>>})
  /\ llm_threads = <<>>

EditRecipeAnyIO == \E id \in buttons, io \in IoOutcomes : EditRecipeIO(id, nB, pQ, io)

DeleteRecipeAnyIO == \E id \in buttons, io \in IoOutcomes : DeleteRecipeIO(id, io)

NextIO == EditRecipeAnyIO \/ DeleteRecipeAnyIO

SpecIO == InitIO /\ [][NextIO]_vars

\* one request thread of either class, under every configuration and outcome
LLMConfigs ==
  [provider : {"Local OpenAI-Compatible", "OpenAI API", "LM Studio Native API", "Other"},
   url : {<<>>, <<"http://127.0.0.1:1234">>},
   api_key : {<<>>, <<"sk">>},
   mcp_plugin_ids : {<<>>}]

InitLLM ==
  /\ InitWith({<<>>}, FreshConfigs({MaxCap}, {MaxCap}), LLMConfigs, {<<"t">>})
  /\ \E impl \in {"codude", "client"} :
       llm_threads = <<NewThread(llm_api_config, pP, <<"t">>, impl)>>

ThreadRunLLM == ThreadRunWith(NetOutcomes)

NextLLM == ThreadRunLLM \/ DeliverSignal

SpecLLM == InitLLM /\ [][NextLLM]_vars /\ WF_vars(ThreadRunLLM) /\ WF_vars(DeliverSignal)

\* the memory of a session: responses arrive and are shown, entries are shown again
\* and deleted, windows lose the focus and are closed
InitMemory ==
  /\ InitSession(AppFiles, FreshConfigs({1}, {MaxCap}), {LocalConfig}, {<<"t">>},
                 BOOLEAN, {FALSE})
  /\ llm_threads = <<>>

\* every save wraps the stored response in one more document: the runs stop saving
\* once a stored response is longer than MaxHtmlLen
ResponsesShort == \A k \in 1..Len(_memory) : Len(_memory[k].response) <= MaxHtmlLen

ReplyingOutcomes == {NetJson(200, BodyChoicesAndText)}

ThreadRunReplying == ThreadRunWith(ReplyingOutcomes)

\* a response opens a window: the runs take it while fewer than MaxWindows are open
DeliverSignalShown == Len(result_windows) < MaxWindows /\ DeliverSignal

\* one dispatch at a time
ExecuteRecipeIdle == llm_threads = <<>> /\ ExecuteRecipe

ShowWhileShort == ResponsesShort /\ ShowMemoryEntry

WindowFocusOutWhileShort == ResponsesShort /\ ResultWindowFocusOut

WindowCloseWhileShort == ResponsesShort /\ ResultWindowClose

MainFocusOutWhileShort == ResponsesShort /\ MainFocusOut

NextMemory ==
  \/ ExecuteRecipeIdle
  \/ ThreadRunReplying
  \/ DeliverSignalShown
  \/ DeleteMemoryEntry
  \/ ShowWhileShort
  \/ WindowFocusOutWhileShort
  \/ WindowCloseWhileShort
  \/ MainFocusOutWhileShort

SpecMemory == InitMemory /\ [][NextMemory]_vars

\* the backing files of a session that shows its results in the main window:
\* responses are recorded, entries are deleted, the settings switch the permanent
\* memory on and off
InitFiles ==
  /\ InitSession(AppFiles, FreshConfigs({1}, {MaxCap}), {LocalConfig}, {<<"t">>},
                 {TRUE}, BOOLEAN)
  /\ llm_threads = <<>>

SaveMemoryConfig ==
  \E permanent \in BOOLEAN :
    SaveConfigWith(max_recents, max_favorites, results_in_app, permanent)

\* the responses of these runs arrive within one second of the clock
DeliverSignalAtOnce == \E i \in 1..Len(llm_threads) : DeliverSignalWithin(i, {1})

NextFiles ==
  \/ ExecuteRecipe
  \/ ThreadRunReplying
  \/ DeliverSignalAtOnce
  \/ DeleteMemoryEntry
  \/ SaveMemoryConfig

SpecFiles == InitFiles /\ [][NextFiles]_vars

\* one dispatch with permanent memory on, its reply recorded in a backing file, and
\* the application started again
RoundTripTexts == {<<"t">>, <<"t", "\n">>, <<"t", "\n", "\n", "Prompt:", "\n", "u">>}

RoundTripReplies ==
  {<<"X">>, <<"X", "\n">>, <<" ", "X">>, <<"X", "\n", "\n", "Prompt:", "\n", "Y">>,
   <<"LLM Response:", "\n", "X">>}

InitRoundTrip ==
  /\ InitSession(AppFiles, FreshConfigs({1}, {MaxCap}), {LocalConfig}, {<<>>},
                 {TRUE}, {TRUE})
  /\ \E text \in RoundTripTexts, prompt \in {pP, pQ} :
       llm_threads = <<NewThread(llm_api_config, prompt, text, "codude")>>

RoundTripOutcomes == {NetJson(200, JDict(<<Choices(JStr(r))>>)) : r \in RoundTripReplies}

ThreadRunRoundTrip == ThreadRunWith(RoundTripOutcomes)

NextRoundTrip == ThreadRunRoundTrip \/ DeliverSignal \/ RestartSession

SpecRoundTrip == InitRoundTrip /\ [][NextRoundTrip]_vars

\* one request thread of llm_client.py under every provider, plugin id setting,
\* keyword requirement and prompt
ToolPrompts ==
  {pP, UseToolsKeyword \o <<" ", "p">>, <<"u", "s", "e", "t", "o", "o", "l", "s", ":", "p">>,
   <<" ">> \o UseToolsKeyword \o <<"p">>, UseToolsKeyword,
   UseToolsKeyword \o <<" ">> \o UseToolsKeyword \o <<"p">>}

ToolConfigs ==
  [provider : {"Local OpenAI-Compatible", "OpenAI API", "LM Studio Native API", "Other"},
   url : {<<>>, <<"http://127.0.0.1:1234">>},
   api_key : {<<"sk">>},
   mcp_plugin_ids : {<<>>, <<" ">>, <<",">>, <<"a">>, <<"a", ",", " ", "b">>, <<",", " ", "a">>}]

InitTools ==
  /\ InitWith({<<>>}, FreshConfigs({MaxCap}, {MaxCap}), ToolConfigs, {<<>>})
  /\ \E prompt \in ToolPrompts, text \in {<<>>, <<"t">>}, require_usetools \in BOOLEAN :
       llm_threads = <<[NewThread(llm_api_config, prompt, text, "client")
                          EXCEPT !.require_usetools = require_usetools]>>

NextTools == ThreadRunReplying \/ DeliverSignal

SpecTools == InitTools /\ [][NextTools]_vars

\* dispatches that overlap: the captured text changes between them, the requests
\* succeed or fail and their signals are taken in any order
InitOrder ==
  /\ InitWith(AppFiles, FreshConfigs({1}, {MaxCap}), {LocalConfig}, {<<"t">>})
  /\ llm_threads = <<>>

CaptureAnother == UpdateCapturedTextFrom({<<"u">>})

OrderOutcomes ==
  {NetFailed("timeout"), NetJson(200, BodyChoicesAndText), NetJson(200, BodyTextOnly)}

ThreadRunOrder == ThreadRunWith(OrderOutcomes)

NextOrder == CaptureAnother \/ ExecuteRecipe \/ ThreadRunOrder \/ DeliverSignal

SpecOrder == InitOrder /\ [][NextOrder]_vars

\* a config file that is not valid JSON
InvalidJson == [invalid_json |-> TRUE]

\* the session when __init__ has called validate_and_load_config and the pane is
\* not built yet: the file was read, or it was not valid JSON and every key of
\* default_config was set as an attribute, recently_used_recipes and
\* favorite_recipes to the plain lists [] of the defaults
InitCorrupt ==
  /\ recipes_file_content \in AppFiles
  /\ config_file \in FreshConfigs({1, MaxCap}, {MaxCap}) \cup {InvalidJson}
  /\ IF config_file = InvalidJson
     THEN /\ max_recents = DefaultMaxRecents
          /\ max_favorites = DefaultMaxRecents
          /\ recently_used_recipes = [items |-> <<>>, maxlen |-> NoAttribute]
          /\ favorite_recipes = <<>>
          /\ dialog = "Config Error"
     ELSE /\ max_recents = config_file.max_recents
          /\ max_favorites = config_file.max_favorites
          /\ recently_used_recipes = LoadedRecents(config_file)
          /\ favorite_recipes = LoadedFavorites(config_file)
          /\ dialog = ""
  /\ buttons = {}
  /\ recent_group = <<>>
  /\ llm_api_config = LocalConfig
  /\ captured_text = <<"t">>
  /\ llm_threads = <<>>
  /\ _memory = <<>>
  /\ backups = NoBackups
  /\ active_memory_index = None
  /\ result_windows = <<>>
  /\ results_textedit = <<>>
  /\ memory_dir = {}
  /\ results_in_app = FALSE
  /\ permanent_memory = FALSE
  /\ unhandled = ""

NextCorrupt ==
  \/ LoadRecipesAndPopulateList
  \/ ExecuteRecipe
  \/ ToggleFavorite
  \/ ThreadRunFailing
  \/ DeliverSignal

SpecCorrupt == InitCorrupt /\ [][NextCorrupt]_vars

(***************************************************************************)
(* Claims                                                                  *)
(***************************************************************************)

\* the threads that are running
RunningThreads == {i \in 1..Len(llm_threads) : llm_threads[i].pc = "running"}

\* C1: at most one request is in flight: no two request threads run at the same time
C1_SingleInFlight == Cardinality(RunningThreads) <= 1

\* the terminator of a line readlines() returned: its final "\n", if any
Terminator(line) == IF line # <<>> /\ line[Len(line)] = "\n" THEN <<"\n">> ELSE <<>>

\* the first line the rewrites match with id
FirstMatch(lines, id) == MinOf({k \in 1..Len(lines) : LineMatches(lines[k], id[1], id[2])})

\* the edit is applied, and the file held a line for id
EditApplied(id, new_name, new_prompt) ==
  /\ FoundInFile(ReadLines(recipes_file_content), id[1], id[2])
  /\ EditRecipeOf(id, new_name, new_prompt)

OneLineChanged(id, new_name, new_prompt) ==
  LET lines == ReadLines(recipes_file_content)
      after == ReadLines(recipes_file_content')
      k == FirstMatch(lines, id)
  IN  /\ Len(after) = Len(lines)
      /\ \A i \in 1..Len(lines) : i # k => after[i] = lines[i]
      /\ after[k] = RecipeLine(new_name, new_prompt) \o Terminator(lines[k])

\* C2: a successful edit changes exactly one line of the file, the first one that
\* matches the old identity: every other line is as it was, and the new line is
\* "**newName**: newPrompt" followed by the terminator the old line had
C2_EditChangesOneLine ==
  [][\A id \in buttons, new_name \in NewNames, new_prompt \in NewPrompts :
       EditApplied(id, new_name, new_prompt) => OneLineChanged(id, new_name, new_prompt)]_vars

\* the recipes of the file, in order, each with its group
Recipes(content) == RecipesOf(_parse_recipes_file_to_structure(content))

\* a recipe node without its line number
Placed(n) == [id |-> NodeId(n), hasGroup |-> n.hasGroup, group |-> n.group]

ReloadShowsEdit(id, new_name, new_prompt) ==
  LET before == Recipes(recipes_file_content)
      after == Recipes(recipes_file_content')
      k == MinOf({i \in 1..Len(before) : NodeId(before[i]) = id})
  IN  /\ Len(after) >= k
      /\ Placed(after[k]) = [Placed(before[k]) EXCEPT !.id = <<new_name, new_prompt>>]

\* C3: after a successful edit of a recipe of the file, parsing the file again gives,
\* at the position and in the group of the old recipe, a recipe whose identity is
\* exactly (newName, newPrompt)
C3_EditThenReload ==
  [][\A id \in FileIds(recipes_file_content), new_name \in NewNames, new_prompt \in NewPrompts :
       EditApplied(id, new_name, new_prompt) => ReloadShowsEdit(id, new_name, new_prompt)]_vars

\* the deletion is applied, and the file held a line for id
DeleteApplied(id) ==
  /\ FoundInFile(ReadLines(recipes_file_content), id[1], id[2])
  /\ DeleteRecipeOf(id)

\* the placed recipes of a file
PlacedRecipes(content) == [i \in 1..Len(Recipes(content)) |-> Placed(Recipes(content)[i])]

\* C4: after a successful deletion of id, parsing the file again gives the recipes
\* it had, without those of identity id, the others in their order and groups
C4_DeleteThenReload ==
  [][\A id \in buttons :
       DeleteApplied(id) =>
         PlacedRecipes(recipes_file_content')
           = SelectSeq(PlacedRecipes(recipes_file_content), LAMBDA r : r.id # id)]_vars

MovedToFront(items, id, n) ==
  LET moved == <<id>> \o SelectSeq(items, LAMBDA x : x # id)
  IN  IF n >= 1 /\ Len(moved) > n THEN SubSeq(moved, 1, n) ELSE moved

\* C6: executing the recipe of identity id leaves id once in the recently-used
\* list, at the front, the others in their order (the oldest dropped beyond the
\* cap), and executing it again would leave the list as it is
C6_TouchMovesToFront ==
  [][\A id \in buttons :
       (ExecuteRefusal = "" /\ ExecuteRecipeOf(id)) =>
         /\ recently_used_recipes'.items
              = MovedToFront(recently_used_recipes.items, id, max_recents)
         /\ Touch(recently_used_recipes', max_recents, id[1], id[2])
              = recently_used_recipes']_vars

\* the toggle of an absent id is refused: nothing changes, the user is told
ToggleRefused ==
  /\ favorite_recipes' = favorite_recipes
  /\ config_file' = config_file
  /\ buttons' = buttons
  /\ dialog' = "Favorites Full"

\* C7: when max_favorites is at least 1 and the favorites list holds max_favorites
\* identities or more, the toggle of an identity that is not in the list leaves the
\* list as it is, in memory and in the stored config, and shows "Favorites Full"
C7_FullFavoritesRefuse ==
  [][\A id \in buttons :
       ( /\ max_favorites >= 1
         /\ Len(favorite_recipes) >= max_favorites
         /\ ~InSeq(favorite_recipes, id)
         /\ ToggleFavoriteOf(id) ) => ToggleRefused]_vars

\* a full list, and the refusal shown
C7_Witness ==
  /\ max_favorites >= 1
  /\ Len(favorite_recipes) = max_favorites
  /\ config_file.favorite_recipes = favorite_recipes
  /\ dialog = "Favorites Full"

\* C7 as stated: whenever the list holds max_favorites identities, the toggle of an
\* absent identity is refused
C7_AtCapacityRefuse ==
  [][\A id \in buttons :
       ( /\ Len(favorite_recipes) = max_favorites
         /\ ~InSeq(favorite_recipes, id)
         /\ ToggleFavoriteOf(id) ) => ToggleRefused]_vars

\* the finished threads
FinishedThreads == {i \in 1..Len(llm_threads) : llm_threads[i].pc = "finished"}

\* what a finished thread signalled
Answers(t, content) == t.emitted = <<ResponseSig(content)>>
Fails(t) == Len(t.emitted) = 1 /\ t.emitted[1].sig = "error_occurred"

\* C8: every started run() ends, having emitted exactly one signal, which is
\* response_received or error_occurred, and having let no exception out
C8_ExactlyOneSignal ==
  /\ [](\A i \in FinishedThreads :
          /\ Len(llm_threads[i].emitted) = 1
          /\ llm_threads[i].emitted[1].sig \in {"response_received", "error_occurred"}
          /\ ~llm_threads[i].escaped)
  /\ <>(RunningThreads = {})

\* a 200 reply whose body is not JSON ended in one error signal
C8_Witness ==
  \E i \in FinishedThreads :
    /\ llm_threads[i].net.kind = "response"
    /\ llm_threads[i].net.response.status_code = 200
    /\ ~llm_threads[i].net.response.is_json
    /\ Fails(llm_threads[i])

\* the thread got a 200 reply of this JSON body
Got200(t, body) ==
  /\ t.pc = "finished"
  /\ t.net.kind = "response"
  /\ t.net.response.status_code = 200
  /\ t.net.response.is_json
  /\ t.net.response.json = body

\* a thread of llm_client.py set to the vendor-native provider
NativeThread(t) == t.impl = "client" /\ t.cfg.provider = "LM Studio Native API"

\* C9: the order of extraction depends on the provider. The vendor-native provider
\* scans output[] (the last message entry, else the first entry), then takes the
\* first non-empty of content, text, response, and never reads choices; every
\* other provider takes choices[0].message.content, then text, then response, and
\* never reads output[] or content. A body with choices X and text Y yields Y for
\* the vendor-native provider and X for the others.
C9_ExtractionByProvider ==
  \A i \in FinishedThreads :
    LET t == llm_threads[i]
        native == NativeThread(t)
    IN  /\ Got200(t, BodyChoicesAndText) => Answers(t, IF native THEN <<"Y">> ELSE <<"X">>)
        /\ Got200(t, BodyOutput) => Answers(t, IF native THEN <<"O2">> ELSE <<"X">>)
        /\ Got200(t, BodyOutputNoMessage) => IF native THEN Answers(t, <<"R">>) ELSE Fails(t)
        /\ Got200(t, BodyContentOnly) => IF native THEN Answers(t, <<"C">>) ELSE Fails(t)
        /\ Got200(t, BodyTextOnly) => Answers(t, <<"Y">>)
        /\ Got200(t, BodyResponseOnly) => Answers(t, <<"Z">>)
        /\ Got200(t, BodyNullContent) => Answers(t, <<"Z">>)

\* the vendor-native provider took text although the body held choices
C9_Witness ==
  \E i \in FinishedThreads :
    /\ NativeThread(llm_threads[i])
    /\ Got200(llm_threads[i], BodyChoicesAndText)
    /\ Answers(llm_threads[i], <<"Y">>)

\* C9 as stated: one order whatever the provider, choices first, then output[],
\* then the top-level fields, so that choices X and text Y yields X
C9_FixedPriority ==
  \A i \in FinishedThreads :
    LET t == llm_threads[i]
    IN  /\ Got200(t, BodyChoicesAndText) => Answers(t, <<"X">>)
        /\ Got200(t, BodyOutput) => Answers(t, <<"X">>)
        /\ Got200(t, BodyOutputNoMessage) => Answers(t, <<"R">>)
        /\ Got200(t, BodyContentOnly) => Answers(t, <<"C">>)

\* s ends with e
EndsWith(s, e) == Len(e) <= Len(s) /\ SubSeq(s, Len(s) - Len(e) + 1, Len(s)) = e

\* the thread got a reply whose status is not 200
GotNonOk(t) ==
  /\ t.pc = "finished"
  /\ t.net.kind = "response"
  /\ t.net.response.status_code # 200

\* C10: a reply whose status is not 200 ends in the error signal, whatever its
\* body; the message holds m for the bodies {error:{message:m}} and {error:m}
\* with m a string, and for a body that is not JSON it ends with the first
\* RawExcerptLen characters of the body and no more
C10_NonOkFails ==
  \A i \in FinishedThreads :
    LET t == llm_threads[i]
        reply == t.net.response
        msg == t.emitted[1].msg
    IN  GotNonOk(t) =>
          /\ Fails(t)
          /\ (reply.is_json /\ reply.json = BodyErrorMessage) => InSeq(msg, "bad key")
          /\ (reply.is_json /\ reply.json = BodyErrorString) => InSeq(msg, "overloaded")
          /\ ~reply.is_json =>
               /\ EndsWith(msg, Prefix(reply.text, RawExcerptLen))
               /\ Len(reply.text) > RawExcerptLen => ~EndsWith(msg, reply.text)

\* a 401 with the body {error:{message:"bad key"}} failed with that message
C10_Witness ==
  \E i \in FinishedThreads :
    /\ GotNonOk(llm_threads[i])
    /\ llm_threads[i].net.response.json = BodyErrorMessage
    /\ Fails(llm_threads[i])
    /\ InSeq(llm_threads[i].emitted[1].msg, "bad key")

\* the lines of a file, each without its surrounding whitespace
TrimmedLines(content) ==
  [k \in 1..Len(ReadLines(content)) |-> Strip(ReadLines(content)[k])]

\* a group line: its first character is '#'
IsGroupLine(t) == t # <<>> /\ t[1] = "#"

\* the text before and after the first ':' of t
BeforeColon(t) == SubSeq(t, 1, MinOf({j \in 1..Len(t) : t[j] = ":"}) - 1)
AfterColon(t) == SubSeq(t, MinOf({j \in 1..Len(t) : t[j] = ":"}) + 1, Len(t))

\* the name: what is before the first ':', without the asterisks and the
\* whitespace around it
NameIn(t) == Strip(StripSet(Strip(BeforeColon(t)), {"*"}))

\* a recipe line: it starts with '**', holds a ':', and both parts are non-empty
IsRecipeLine(t) ==
  /\ Len(t) >= 2 /\ t[1] = "*" /\ t[2] = "*"
  /\ \E j \in 1..Len(t) : t[j] = ":"
  /\ NameIn(t) # <<>>
  /\ Strip(AfterColon(t)) # <<>>

\* the i-th smallest member of a set of numbers
Nth(S, i) == CHOOSE k \in S : Cardinality({j \in S : j < k}) = i - 1

\* the node line k stands for
ExpectedNode(trimmed, k) ==
  LET t == trimmed[k]
      above == {g \in 1..(k - 1) : IsGroupLine(trimmed[g])}
      title(g) == Strip(LStripSet(trimmed[g], {"#"}))
  IN  IF IsGroupLine(t)
      THEN [type |-> "group", name |-> title(k), prompt |-> <<>>, hasGroup |-> TRUE,
            group |-> title(k), line_num |-> k - 1]
      ELSE [type |-> "recipe", name |-> NameIn(t), prompt |-> Strip(AfterColon(t)),
            hasGroup |-> above # {},
            group |-> IF above = {} THEN <<>> ELSE title(MaxOf(above)),
            line_num |-> k - 1]

\* one node per group line and per recipe line, in file order
ExpectedParse(content) ==
  LET trimmed == TrimmedLines(content)
      node_lines == {k \in 1..Len(trimmed) :
                       IsGroupLine(trimmed[k]) \/ IsRecipeLine(trimmed[k])}
  IN  [i \in 1..Cardinality(node_lines) |-> ExpectedNode(trimmed, Nth(node_lines, i))]

NoLineMatches(id) ==
  \A k \in 1..Len(ReadLines(recipes_file_content)) :
    ~LineMatches(ReadLines(recipes_file_content)[k], id[1], id[2])

\* C12: when no line of the file matches the requested identity, the edit and the
\* delete handler report the failure and leave the file, the two lists, the capacities
\* and the persisted config as they were
C12_NotFoundChangesNothing ==
  [][\A id \in buttons :
       (NoLineMatches(id) /\ (EditRecipeOf(id, nB, pQ) \/ DeleteRecipeOf(id)))
         => /\ recipes_file_content' = recipes_file_content
            /\ index_vars' = index_vars
            /\ dialog' \in {"Edit Error", "Delete Error"}]_vars

\* an edit of a favorite that has no line in the file was refused
C12_Witness ==
  /\ dialog = "Edit Error"
  /\ favorite_recipes = <<<<nA, pXTabY>>>>
  /\ \E id \in buttons : NoLineMatches(id)

\* the maximal runs of characters other than whitespace of s, in order
Words(s) ==
  LET starts == {i \in 1..Len(s) : s[i] \notin WS /\ (i = 1 \/ s[i - 1] \in WS)}
      end(i) == MinOf({j \in i..Len(s) : j = Len(s) \/ s[j + 1] \in WS})
  IN  [n \in 1..Cardinality(starts) |-> SubSeq(s, Nth(starts, n), end(Nth(starts, n)))]

\* line is a recipe line whose name and prompt have the words of id's
SameWords(line, id) ==
  LET t == Strip(line)
  IN  /\ Len(t) >= 2 /\ t[1] = "*" /\ t[2] = "*"
      /\ \E j \in 1..Len(t) : t[j] = ":"
      /\ Words(NameIn(t)) = Words(id[1])
      /\ Words(AfterColon(t)) = Words(id[2])

\* C13: the edit and the delete match a line of the file with the requested identity
\* exactly when the names and the prompts are equal once every whitespace run is one
\* space and the ends are trimmed, that is, when they are made of the same words
C13_MatchIsNormalizedEquality ==
  \A id \in buttons, k \in 1..Len(ReadLines(recipes_file_content)) :
    LineMatches(ReadLines(recipes_file_content)[k], id[1], id[2])
      <=> SameWords(ReadLines(recipes_file_content)[k], id)

\* the favorite stored with a tab in its prompt was found in a file that holds the
\* prompt with spaces, and renamed: only such an edit puts (B, q) among the favorites
C13_Witness == favorite_recipes = <<<<nB, pQ>>>>

\* seq with new in the place of its first old, if it holds old
ListAfterEdit(seq, old, new) ==
  LET at == {i \in 1..Len(seq) : seq[i] = old}
  IN  [i \in 1..Len(seq) |-> IF at # {} /\ i = MinOf(at) THEN new ELSE seq[i]]

C15_LoadKeepsMostRecent ==
  [][\A n \in 1..MaxCap :
       (n < Len(recently_used_recipes.items) /\ SaveConfigOf(n, max_favorites))
         => recently_used_recipes'.items = SubSeq(recently_used_recipes.items, 1, n)]_vars

\* C16: after every config load the favorites list holds at most max_favorites
\* identities: the first max_favorites of the stored list, in insertion order
C16_LoadTruncatesFavorites ==
  [][\A m \in 1..MaxCap :
       SaveConfigOf(max_recents, m)
         => /\ Len(favorite_recipes') <= m
            /\ favorite_recipes' = Prefix(favorite_recipes, m)]_vars

\* C17: with max_recents = 0 the recently-used list is not longer than the default
\* capacity of 5, whatever is executed and however often the config is read back
C17_ZeroMeansDefaultCap ==
  max_recents = 0 => Len(recently_used_recipes.items) <= DefaultMaxRecents

\* C17, as the program has it: max_recents = 0 means no capacity: the execution of a
\* recipe puts its identity in front of the others, none of which is dropped, and a
\* config reload leaves the list as it is
C17_ZeroMeansUnlimited ==
  [][max_recents = 0 =>
       /\ \A id \in buttons :
            (ExecuteRefusal = "" /\ ExecuteRecipeOf(id))
              => recently_used_recipes'.items
                   = <<id>> \o SelectSeq(recently_used_recipes.items, LAMBDA x : x # id)
       /\ ReloadConfig => recently_used_recipes'.items = recently_used_recipes.items]_vars

\* all six recipes are in the list, read back from the config
C17_Witness ==
  /\ max_recents = 0
  /\ Len(recently_used_recipes.items) = DefaultMaxRecents + 1
  /\ dialog = "Config Saved"

\* C18: the recently-used list, its persisted copy and the memory change for a recipe
\* only when its dispatch succeeds; a dispatch that ends in an error leaves them as
\* they were before the recipe was executed.  The run starts with the list and the
\* memory empty and the memory only grows: while no request is outstanding and the
\* memory is empty, every dispatch so far has failed, and the list is still empty
C18_FailedDispatchLeavesNoTrace ==
  (llm_threads = <<>> /\ _memory = <<>>)
    => /\ recently_used_recipes.items = <<>>
       /\ config_file.recently_used_recipes = <<>>

\* C19: when the rewrite of the file by an edit or a delete meets an I/O error, the
\* operation fails and the file holds its complete old content
C19_FailedRewriteKeepsFile ==
  [][\A id \in buttons, io \in IoOutcomes :
       (io.write # "ok" /\ (EditRecipeIO(id, nB, pQ, io) \/ DeleteRecipeIO(id, io)))
         => /\ recipes_file_content' = recipes_file_content
            /\ dialog' \in {"Edit Error", "Delete Error"}]_vars

\* the file an edit or a delete of id is to write
Rewritten(id) ==
  {FileAfterUpdate(recipes_file_content, id, nB, pQ), FileAfterRemove(recipes_file_content, id)}

\* C20: an edit or a delete that changes the recipes file has first tried to copy the
\* file as it was into the backup directory: the newest backup is that file, or the
\* copy failed and the failure is logged; a failed copy does not keep the rewrite
\* from taking place
C20_BackupBeforeRewrite ==
  [][\A id \in buttons, io \in IoOutcomes :
       (EditRecipeIO(id, nB, pQ, io) \/ DeleteRecipeIO(id, io))
         => /\ recipes_file_content' # recipes_file_content
                 => IF io.backup
                    THEN /\ backups'.newest.content = recipes_file_content
                         /\ backups'.newest.suffix \in {"before_edit", "before_delete"}
                         /\ backups'.logged = "info"
                    ELSE /\ backups'.newest = backups.newest
                         /\ backups'.logged = "error"
            /\ (~io.backup /\ io.write = "ok" /\ ~NoLineMatches(id))
                 => /\ recipes_file_content' \in Rewritten(id)
                    /\ dialog' = dialog]_vars

\* the file was rewritten, no rewrite ever failed, and no backup copy could be made
C20_Witness ==
  /\ recipes_file_content \notin IndexFiles
  /\ dialog = ""
  /\ backups.logged = "error"
  /\ backups.newest.suffix = ""

\* an identity occurs at most once in the list
NoRepeats(seq) == \A i, j \in 1..Len(seq) : seq[i] = seq[j] => i = j

\* C27: after executions, favorite toggles, successful edits and successful
\* deletions neither the recently-used list nor the favorites list holds the same
\* identity twice
C27_NoDuplicates ==
  NoRepeats(recently_used_recipes.items) /\ NoRepeats(favorite_recipes)

\* the active index is none or designates an entry
ActiveValid == active_memory_index = None
                 \/ (0 <= active_memory_index /\ active_memory_index < Len(_memory))

\* C21: deleting memory entry i removes exactly that entry, the entries before it
\* keep their index and those after it move down by one with their contents; the
\* active index becomes none if it was i, is decremented if it was greater, is
\* unchanged if it was smaller, and is always none or a valid index that designates
\* the entry it designated before
C21_DeleteShiftsIndices ==
  [][/\ ActiveValid'
     /\ \A i \in 0..(Len(_memory) - 1), removable \in BOOLEAN :
          DeleteMemoryEntryIO(i, removable)
            => /\ Len(_memory') = Len(_memory) - 1
               /\ \A k \in 1..i : _memory'[k] = _memory[k]
               /\ \A k \in (i + 2)..Len(_memory) : _memory'[k - 1] = _memory[k]
               /\ active_memory_index = None => active_memory_index' = None
               /\ active_memory_index = i => active_memory_index' = None
               /\ active_memory_index > i => active_memory_index' = active_memory_index - 1
               /\ (active_memory_index # None /\ active_memory_index < i)
                    => active_memory_index' = active_memory_index
               /\ active_memory_index' # None
                    => _memory'[active_memory_index' + 1] = _memory[active_memory_index + 1]]_vars

\* an entry before the active one was deleted: the active index moved down
C21_Witness ==
  /\ dialog = "Confirm Deletion"
  /\ active_memory_index = 0
  /\ Len(_memory) = 2
  /\ _memory[1].prompt # _memory[2].prompt

\* the entry in row i has a backing file name and that file exists
HasFile(i) ==
  _memory[i + 1].filename # <<>> /\ FileExists(memory_dir, _memory[i + 1].filename)

\* C22 as stated: deleting a memory entry that has a backing file name deletes the
\* file whenever it exists and can be removed; a removal that fails leaves the
\* entry removed all the same
C22_DeleteRemovesFile ==
  [][\A i \in 0..(Len(_memory) - 1), removable \in BOOLEAN :
       (HasFile(i) /\ DeleteMemoryEntryIO(i, removable))
         => /\ _memory' = PopAt(_memory, i)
            /\ removable => ~FileExists(memory_dir', _memory[i + 1].filename)]_vars

\* C22, amended: the file is deleted when permanent memory is enabled at the time
\* of the deletion, and is kept when it is disabled; a removal that fails changes
\* no file, ends the process with no error, and the entry is removed all the same
C22_DeleteRemovesFileWhilePermanent ==
  [][\A i \in 0..(Len(_memory) - 1), removable \in BOOLEAN :
       (HasFile(i) /\ DeleteMemoryEntryIO(i, removable))
         => /\ _memory' = PopAt(_memory, i)
            /\ unhandled' = ""
            /\ (permanent_memory /\ removable)
                 => memory_dir' = RemoveFile(memory_dir, _memory[i + 1].filename)
            /\ (~permanent_memory \/ ~removable) => memory_dir' = memory_dir]_vars

\* an entry was deleted with permanent memory on: the file of the entry that is
\* left is the only file
C22_Witness ==
  /\ dialog = "Confirm Deletion"
  /\ permanent_memory
  /\ Len(_memory) = 1
  /\ _memory[1].filename # <<>>
  /\ \A f \in memory_dir : f.filename = _memory[1].filename
  /\ memory_dir # {}

\* the entries written to their backing files and not changed since
AllOnFile ==
  /\ _memory # <<>>
  /\ \A k \in 1..Len(_memory) :
       LET e == _memory[k]
       IN  /\ e.filename # <<>>
           /\ [filename |-> e.filename,
               content |-> MemoryContent(e.captured_text, e.prompt, e.response)] \in memory_dir

\* C23: an entry written in the labeled-block layout and parsed again when the
\* application starts has the same captured text, prompt and response
C23_BackingFileRoundTrip ==
  [][(AllOnFile /\ Len(_memory) = 1 /\ RestartSession)
       => /\ Len(_memory') = 1
          /\ _memory'[1].captured_text = _memory[1].captured_text
          /\ _memory'[1].prompt = _memory[1].prompt
          /\ _memory'[1].response = _memory[1].response]_vars

\* at least one non-empty plugin id is configured
HasPluginId(mcp_plugin_ids) ==
  \E k \in 1..Len(SplitOn(mcp_plugin_ids, ",")) : Strip(SplitOn(mcp_plugin_ids, ",")[k]) # <<>>

\* the requests made by threads of llm_client.py
Requests ==
  {i \in 1..Len(llm_threads) :
     llm_threads[i].impl = "client" /\ llm_threads[i].payload.posted}

\* the request carries integrations exactly when the provider is the vendor-native
\* one, a plugin id is configured and the keyword is present or not required
IntegrationsAsConfigured(t) ==
  (t.payload.integrations # <<>>)
    <=> /\ t.cfg.provider = "LM Studio Native API"
        /\ HasPluginId(t.cfg.mcp_plugin_ids)
        /\ ~t.require_usetools \/ StartsWith(t.prompt, UseToolsKeyword)

\* C24 as stated: integrations exactly under the three conditions, and when the
\* keyword grants tool use the text sent does not begin with the keyword
C24_KeywordNeverSent ==
  \A i \in Requests :
    LET t == llm_threads[i]
    IN  /\ IntegrationsAsConfigured(t)
        /\ (t.require_usetools /\ StartsWith(t.prompt, UseToolsKeyword)
              /\ t.payload.integrations # <<>>)
             => ~StartsWith(t.payload.content, UseToolsKeyword)

\* C24, amended: integrations exactly under the three conditions; a prompt that
\* begins with the keyword is sent without its first nine characters and the
\* whitespace after them, so that a prompt which repeats the keyword is sent with
\* the second keyword at its start; any other prompt is sent as it is
C24_KeywordStrippedOnce ==
  \A i \in Requests :
    LET t == llm_threads[i]
        user_content == UserContent(t.prompt, t.text)
    IN  /\ IntegrationsAsConfigured(t)
        /\ t.payload.integrations # <<>>
             => \A k \in 1..Len(t.payload.integrations) :
                  t.payload.integrations[k] # <<>>
        /\ StartsWith(t.prompt, UseToolsKeyword)
             => /\ Len(t.payload.content) <= Len(user_content) - 9
                /\ EndsWith(user_content, t.payload.content)
                /\ t.payload.content # <<>> => t.payload.content[1] \notin WS
                /\ \A k \in 10..(Len(user_content) - Len(t.payload.content)) :
                     user_content[k] \in WS
        /\ ~StartsWith(t.prompt, UseToolsKeyword) => t.payload.content = user_content

\* the keyword was required, was there, and granted the tools
C24_Witness ==
  \E i \in Requests :
    /\ llm_threads[i].require_usetools
    /\ StartsWith(llm_threads[i].prompt, UseToolsKeyword)
    /\ Len(llm_threads[i].payload.integrations) = 2
    /\ llm_threads[i].payload.content = <<"p">>

\* window win shows memory entry e
WindowShows(win, e) == win.html = WindowHtml(e.captured_text, e.prompt, e.response)

\* the memory_index of every open window is out of use or designates the entry the
\* window shows
WindowsDesignate ==
  \A w \in 1..Len(result_windows) :
    LET win == result_windows[w]
    IN  (win.memory_index # None /\ win.memory_index < Len(_memory))
          => \/ WindowShows(win, _memory[win.memory_index + 1])
             \/ _memory[win.memory_index + 1].response = ToHtml(win.html)

\* C25: after responses, deletions and window openings the memory_index of each open
\* ResultWindow designates the entry whose response the window displays, and the
\* save of a window that loses the focus or is closed changes no other entry
C25_WindowsKeepTheirEntry ==
  [][/\ WindowsDesignate'
     /\ \A w \in 1..Len(result_windows) :
          (ResultWindowFocusOutOf(w) \/ ResultWindowCloseOf(w))
            => \A k \in 1..Len(_memory) :
                 _memory'[k] # _memory[k] => WindowShows(result_windows[w], _memory[k])]_vars

\* C26: the user edits no displayed text in these runs, so showing an entry,
\* switching to another one, the main window losing the focus, and a result window
\* losing the focus or being closed leave every stored response and every backing
\* file as they are
C26_UneditedResponsesKept ==
  [][(ShowMemoryEntry \/ ResultWindowFocusOut \/ ResultWindowClose \/ MainFocusOut)
       => (_memory' = _memory /\ memory_dir' = memory_dir)]_vars

\* the response signals thread t emitted
ResponsesOf(t) == {k \in 1..Len(t.emitted) : t.emitted[k].sig = "response_received"}

\* thread i has a signal to deliver and it is a response
DeliversResponse(i) ==
  /\ llm_threads[i].pc = "finished"
  /\ llm_threads[i].handled < Len(llm_threads[i].emitted)
  /\ llm_threads[i].emitted[llm_threads[i].handled + 1].sig = "response_received"

C29_InvalidConfigLeavesSessionUsable ==
  config_file = InvalidJson => unhandled = ""

\* C30: whenever the pane is rebuilt (here by a saved settings dialog) the
\* "Recently Used" group lists the identities newest on top: the first button is
\* the most recently executed recipe, the last the least recently executed one
C30_RecentGroupNewestOnTop ==
  [][(\E n \in 0..MaxCap : SaveConfigOf(n, max_favorites))
       => recent_group' = recently_used_recipes'.items]_vars

====
